---- MODULE Spec2Model ----
(***************************************************************************)
(* Model of the request-execution core of krest: the middleware chain      *)
(* composer, the terminal request executor (Client.makeRequest), the retry *)
(* engine it drives and the default retry rule.                            *)
(*                                                                         *)
(* Durations are in milliseconds.  Byte strings are sequences of one-      *)
(* character strings.  An optional value (a nil-able pointer, slice or     *)
(* interface) is <<>> for nil and <<v>> for a value v.                     *)
(***************************************************************************)
EXTENDS Integers, Sequences, FiniteSets, TLC

(***************************************************************************)
(* Bounds of the model.                                                    *)
(***************************************************************************)
MaxAttempts == 3
MaxMiddlewares == 2
MaxFields == 2
MaxContributions == 4
MaxAgainWithTransport == 1
MaxClients == 2
MaxCalls == 2
MaxInterceptors == 5
RelayCap == 2

(***************************************************************************)
(* Program constants.                                                      *)
(***************************************************************************)
DefaultMaxRetries == 1
DefaultBaseRetryDelay == 300
DefaultMaxRetryDelay == 32000
StatusLocked == 423
StatusTooEarly == 425
StatusTooManyRequests == 429
\* Client.timeout of the client under test, in this model's unit (ms).
ClientTimeout == 1000

Min(a, b) == IF a <= b THEN a ELSE b
Max(a, b) == IF a >= b THEN a ELSE b

RECURSIVE Pow2(_)
Pow2(n) == IF n <= 0 THEN 1 ELSE 2 * Pow2(n - 1)

Nil == <<>>
Some(v) == <<v>>
IsNil(o) == o = <<>>
Val(o) == o[1]

\* s contains t as a contiguous run of elements (strings.Contains).
Contains(s, t) ==
    \E i \in 0..(Len(s) - Len(t)) : SubSeq(s, i + 1, i + Len(t)) = t

(***************************************************************************)
(* Errors.  fmt.Errorf builds a plain error whose text is the formatted    *)
(* string, modelled as the sequence of its pieces (%d through ToString,    *)
(* %s of a byte string through its characters).                            *)
(***************************************************************************)
PlainErr(kind, text) == [kind |-> kind, text |-> text, errs |-> <<>>]

ErrReaderBody ==
    PlainErr("config", <<"can't retry a request whose body is an io.Reader">>)
ErrMultipartBody ==
    PlainErr("config", <<"can't retry a request whose body depends on io.Reader's">>)
ErrMarshal == PlainErr("encoding", <<"json: unsupported type">>)
ErrNewRequest == PlainErr("config", <<"net/http: invalid method or url">>)
ErrTransport == PlainErr("transport", <<"connection refused">>)
ErrCtx == PlainErr("transport", <<"context canceled">>)
ErrTimeout == PlainErr("transport", <<"Client.Timeout exceeded while awaiting headers">>)
ErrBodyRead == PlainErr("transport", <<"unexpected EOF">>)
\* Variant: the message of the header error leaves the key out.
ErrInvalidHeaderNoKey(k) ==
    PlainErr("config", <<"header of invalid type received: ", "%T">>)
ErrInvalidHeader(k) ==
    PlainErr("config", <<"header of invalid type received for key '", k, "': ", "%T">>)
ErrUnexpectedStatus(m, u, status, body) ==
    PlainErr("status",
             <<m, " ", u, ": unexpected status code: ", ToString(status), ", payload: ">>
                 \o body)

(***************************************************************************)
(* newMultipartStream: the streaming multipart/form-data encoder.          *)
(***************************************************************************)

\* Sources of a field: a plain io.Reader, MultipartItem(reader, contentType)
\* and MultipartFile(reader, filename).
PlainSource(c) ==
    [kind |-> "plain", content |-> c, contentType |-> "", filename |-> ""]
MultipartItem(c, t) ==
    [kind |-> "item", content |-> c, contentType |-> t, filename |-> ""]
MultipartFile(c, fn) ==
    [kind |-> "file", content |-> c, contentType |-> "", filename |-> fn]

\* Variant: the part of a MultipartFile is declared as text.
FileContentTypeText == "text/plain"

\* The content type of the part of a MultipartFile.
FileContentType == "application/octet-stream"

\* The i-th field name and the bytes its source holds.
FieldName(i) ==
    CASE i = 1 -> "item1" [] i = 2 -> "item2" [] i = 3 -> "item3" [] OTHER -> "item4"
FieldContent(i) ==
    CASE i = 1 -> <<"x1", "x2", "x3">>
      [] i = 2 -> <<"y1">>
      [] i = 3 -> <<"z1", "z2">>
      [] OTHER -> <<"w1">>
FieldSources(i) ==
    { PlainSource(FieldContent(i)),
      MultipartItem(FieldContent(i), "application/json"),
      MultipartFile(FieldContent(i), "fake-filename") }

\* Field maps (map[string]io.Reader) of up to MaxFields fields.
FieldMapsOf(k) ==
    { m \in [{FieldName(i) : i \in 1..k} ->
                UNION {FieldSources(i) : i \in 1..k}] :
        \A i \in 1..k : m[FieldName(i)] \in FieldSources(i) }
FieldMaps == UNION {FieldMapsOf(k) : k \in 0..MaxFields}

\* Variant: a visit may name a key twice and skip another.
OrdersWithRepeats(m) == [1..Cardinality(DOMAIN m) -> DOMAIN m]

\* The orders in which a range over the map can visit its keys.
Orders(m) ==
    { o \in [1..Cardinality(DOMAIN m) -> DOMAIN m] :
        \A i, j \in 1..Cardinality(DOMAIN m) : o[i] = o[j] => i = j }

\* Pieces of the wire format.
CRLF == "\r\n"
Dashes == "--"
DispositionPrefix == "Content-Disposition: form-data; name=\""
FilenamePrefix == "; filename=\""
Quote == "\""
ContentTypePrefix == "Content-Type: "

\* Variant: only a source with a declared content type gets the line.
ContentTypeLineDeclaredOnly(s) ==
    CASE s.kind = "item" -> <<ContentTypePrefix, s.contentType, CRLF>>
      [] OTHER -> <<>>

\* The Content-Type line of a part, if it has one.
ContentTypeLine(s) ==
    CASE s.kind = "item" -> <<ContentTypePrefix, s.contentType, CRLF>>
      [] s.kind = "file" -> <<ContentTypePrefix, FileContentType, CRLF>>
      [] OTHER -> <<>>

\* The opening delimiter and the header block of a part.
PartHeader(name, s, b) ==
    <<Dashes, b, CRLF, DispositionPrefix, name, Quote>>
        \o (IF s.kind = "file" THEN <<FilenamePrefix, s.filename, Quote>> ELSE <<>>)
        \o <<CRLF>> \o ContentTypeLine(s) \o <<CRLF>>

\* One part: delimiter, headers, the bytes of the source, line end.
EncodePart(name, s, b) == PartHeader(name, s, b) \o s.content \o <<CRLF>>

ClosingBoundary(b) == <<Dashes, b, Dashes, CRLF>>

\* Everything the producer writes for the fields visited in order o.
RECURSIVE EncodeParts(_, _, _, _)
EncodeParts(i, o, m, b) ==
    IF i > Len(o) THEN <<>>
    ELSE EncodePart(o[i], m[o[i]], b) \o EncodeParts(i + 1, o, m, b)
\* Variant: the closing boundary is not written.
EncodeFieldsNoClosing(o, m, b) == EncodeParts(1, o, m, b)

EncodeFields(o, m, b) == EncodeParts(1, o, m, b) \o ClosingBoundary(b)

\* The state of a multipart stream: the producer's position in what it has
\* to write, the relay between producer and reads, and what the reads have
\* returned so far.
NoMultipartStream ==
    [started |-> FALSE, order |-> <<>>, fields |-> [k \in {} |-> PlainSource(<<>>)],
     boundary |-> "", pos |-> 0, buf |-> <<>>, out |-> <<>>, closed |-> FALSE,
     eof |-> FALSE, nreads |-> 0, fails |-> FALSE, limit |-> 0, perr |-> FALSE,
     rerr |-> FALSE, errReads |-> 0]
NewMultipartStream(m, o, b) ==
    [started |-> TRUE, order |-> o, fields |-> m, boundary |-> b, pos |-> 0,
     buf |-> <<>>, out |-> <<>>, closed |-> FALSE, eof |-> FALSE, nreads |-> 0,
     fails |-> FALSE, limit |-> 0, perr |-> FALSE, rerr |-> FALSE, errReads |-> 0]
StreamBytes(s) == EncodeFields(s.order, s.fields, s.boundary)

\* Where the bytes of the k-th visited field's source start in the stream.
ContentStart(k, o, m, b) ==
    Len(EncodeParts(1, o, m, b)) - Len(EncodeParts(k, o, m, b))
        + Len(PartHeader(o[k], m[o[k]], b))

\* A stream whose k-th visited field's source answers a read with an error
\* after it has yielded j bytes.
WithFailingSource(s, k, j) ==
    [s EXCEPT !.fails = TRUE,
              !.limit = ContentStart(k, s.order, s.fields, s.boundary) + j]

\* How far the producer gets: to the end of the closing boundary, or to the
\* byte at which a source fails.
WriteLimit(s) == IF s.fails THEN s.limit ELSE Len(StreamBytes(s))

\* Variant: the relay takes whatever the producer has, however much it holds.
RelayRoomUnbounded(s) == RelayCap

\* The free room of the relay.
RelayRoom(s) == RelayCap - Len(s.buf)

\* The producer writes up to n bytes into the free room of the relay.
ProducerWrites(s, n) ==
    [s EXCEPT !.buf = @ \o SubSeq(StreamBytes(s), s.pos + 1, s.pos + n),
              !.pos = @ + n]
\* The producer has written everything and closes its end of the relay.
\* Variant: the producer never closes its end of the relay.
ProducerClosesNothing(s) == s

ProducerCloses(s) == [s EXCEPT !.closed = TRUE]

\* Variant: the producer ends without passing the source's error on.
ProducerFailsSilently(s) == [s EXCEPT !.closed = TRUE]

\* A source failed: the producer closes its end of the relay with the error
\* and ends; nothing more is written.
ProducerFails(s) == [s EXCEPT !.closed = TRUE, !.perr = TRUE]

\* Variant: what a read does not return of the relay's content is lost.
StreamReadDropsRest(s, n) ==
    IF s.buf # <<>>
    THEN LET k == Min(n, Len(s.buf))
         IN  [s EXCEPT !.out = @ \o SubSeq(s.buf, 1, k),
                       !.buf = <<>>,
                       !.nreads = @ + 1]
    ELSE [s EXCEPT !.eof = TRUE, !.nreads = @ + 1]

\* Read(p) with len(p) = n: the bytes at the head of the relay, at most n;
\* once the relay is empty and closed, the producer's error if it closed
\* with one, end-of-stream otherwise.
StreamReadReturns(s, n) ==
    IF s.buf # <<>>
    THEN LET k == Min(n, Len(s.buf))
         IN  [s EXCEPT !.out = @ \o SubSeq(s.buf, 1, k),
                       !.buf = SubSeq(@, k + 1, Len(@)),
                       !.nreads = @ + 1]
    ELSE IF s.perr
         THEN [s EXCEPT !.rerr = TRUE, !.errReads = @ + 1]
         ELSE [s EXCEPT !.eof = TRUE, !.nreads = @ + 1]

\* A stream read to its end in one go, as the transport does with a request body.
Drained(s) ==
    [s EXCEPT !.pos = Len(StreamBytes(s)), !.buf = <<>>, !.out = StreamBytes(s),
              !.closed = TRUE, !.eof = TRUE, !.nreads = @ + 1]

(***************************************************************************)
(* Inputs of a call.                                                       *)
(***************************************************************************)
Methods == {"POST", "BAD METHOD"}
ValidMethod(m) == m # "BAD METHOD"
Urls == {"http://srv"}

Statuses == {200, 299, 300, 400, 502}

\* The server of a call: a fixed handler answering with one payload and one
\* header set; the status it answers with may differ from attempt to attempt.
NoHeader == [k \in {} |-> <<>>]
Servers ==
    { [payload |-> <<>>, header |-> NoHeader],
      [payload |-> <<"h", "i">>,
       header |-> [k \in {"Fakeheaderkey"} |-> <<"fakeHeaderValue">>]] }

\* Header values: a string, a []string, or any other shape.
HdrString(s) == [kind |-> "string", v |-> <<s>>]
HdrList(l) == [kind |-> "list", v |-> l]
HdrOther == [kind |-> "other", v |-> <<>>]

EmptyMap == [k \in {} |-> HdrOther]
HeaderInputs ==
    { Nil,
      Some([k \in {"accept"} |-> HdrString("application/json")]),
      Some([k \in {"accept", "x-multi"} |->
              IF k = "accept" THEN HdrString("application/json")
              ELSE HdrList(<<"v1", "v2">>)]),
      Some([k \in {"accept", "x-bad"} |->
              IF k = "accept" THEN HdrString("application/json") ELSE HdrOther]),
      Some([k \in {"content-type"} |-> HdrString("text/plain")]) }

\* The field map of the multipart body of the inputs: a plain reader and a file.
TwoFields ==
    [k \in {FieldName(1), FieldName(2)} |->
        IF k = FieldName(1) THEN PlainSource(FieldContent(1))
        ELSE MultipartFile(FieldContent(2), "fake-filename")]

\* Body variants of RequestData.Body (an interface{} value).
\* val is the content: the bytes of a []byte, string or io.Reader, the
\* elements of a []string value that is marshalled as JSON.
BodyNil == [kind |-> "nil", val |-> <<>>]
BodyBytes(b) == [kind |-> "bytes", val |-> b]
BodyString(b) == [kind |-> "string", val |-> b]
BodyReader(b) == [kind |-> "reader", val |-> b]
BodyMultipart(m) == [kind |-> "multipart", val |-> m]
BodyJSON(l) == [kind |-> "json", val |-> l]
BodyUnmarshalable == [kind |-> "unmarshalable", val |-> <<>>]
BodyInputs ==
    { BodyNil, BodyBytes(<<"a", "b">>), BodyString(<<"a", "b">>),
      BodyReader(<<"a", "b">>), BodyMultipart(TwoFields), BodyJSON(<<"bodyFromRequest">>),
      BodyUnmarshalable }

RetryRules == {"nil", "always", "never"}
BaseDelayInputs == {0, 100}
MaxDelayInputs == {0, 150}

(***************************************************************************)
(* contracts.go                                                            *)
(***************************************************************************)

\* RequestData.  Headers is a Go map, a reference: 0 is the nil map, any
\* other value is the index of the map in hdrHeap.
RequestData(body, hdrs, maxRetries, baseDelay, maxDelay, rule, stream) ==
    [Body |-> body, Headers |-> hdrs, MaxRetries |-> maxRetries,
     BaseRetryDelay |-> baseDelay, MaxRetryDelay |-> maxDelay,
     RetryRule |-> rule, Stream |-> stream]

\* The zero Response and a populated one.  ReadCloser is the embedded stream
\* handle: nil, the transport's response stream, or a reader over a buffer.
NilHandle == [kind |-> "nil", id |-> 0, bytes |-> <<>>]
TransportHandle(id) == [kind |-> "transport", id |-> id, bytes |-> <<>>]
BufferHandle(b) == [kind |-> "buffer", id |-> 0, bytes |-> b]
Response(rc, body, header, status) ==
    [ReadCloser |-> rc, Body |-> body, Header |-> header, StatusCode |-> status]
ZeroResponse == Response(NilHandle, Nil, Nil, 0)

\* Variant: an unset MaxRetries defaults to one retry after the first attempt.
SetDefaultsTwoAttempts(r, heap) ==
    [data |->
        [r EXCEPT
            !.MaxRetries = IF @ = 0 THEN DefaultMaxRetries + 1 ELSE @,
            !.BaseRetryDelay = IF @ = 0 THEN DefaultBaseRetryDelay ELSE @,
            !.MaxRetryDelay = IF @ = 0 THEN DefaultMaxRetryDelay ELSE @,
            !.RetryRule = IF @ = "nil" THEN "DefaultRetryRule" ELSE @,
            !.Headers = IF @ = 0 THEN Len(heap) + 1 ELSE @],
     heap |-> IF r.Headers = 0 THEN Append(heap, EmptyMap) ELSE heap]

\* Variant: the two delays are set to their defaults whether set or not.
SetDefaultsOverwritesDelays(r, heap) ==
    [data |->
        [r EXCEPT
            !.MaxRetries = IF @ = 0 THEN DefaultMaxRetries ELSE @,
            !.BaseRetryDelay = DefaultBaseRetryDelay,
            !.MaxRetryDelay = DefaultMaxRetryDelay,
            !.RetryRule = IF @ = "nil" THEN "DefaultRetryRule" ELSE @,
            !.Headers = IF @ = 0 THEN Len(heap) + 1 ELSE @],
     heap |-> IF r.Headers = 0 THEN Append(heap, EmptyMap) ELSE heap]

\* SetDefaultsIfNecessary works on the receiver r and, when it allocates the
\* empty header mapping, on the heap of maps.
SetDefaultsIfNecessary(r, heap) ==
    [data |->
        [r EXCEPT
            !.MaxRetries = IF @ = 0 THEN DefaultMaxRetries ELSE @,
            !.BaseRetryDelay = IF @ = 0 THEN DefaultBaseRetryDelay ELSE @,
            !.MaxRetryDelay = IF @ = 0 THEN DefaultMaxRetryDelay ELSE @,
            !.RetryRule = IF @ = "nil" THEN "DefaultRetryRule" ELSE @,
            !.Headers = IF @ = 0 THEN Len(heap) + 1 ELSE @],
     heap |-> IF r.Headers = 0 THEN Append(heap, EmptyMap) ELSE heap]

retriableStatus == {StatusLocked, StatusTooEarly, StatusTooManyRequests}

\* Variant: the status is looked at before the error.
DefaultRetryRuleStatusFirst(resp, err) ==
    [result |-> (IF IsNil(resp) THEN TRUE
                 ELSE (Val(resp).StatusCode \in retriableStatus)
                         \/ Val(resp).StatusCode >= 500)
                \/ ~IsNil(err),
     readResp |-> TRUE]

\* DefaultRetryRule(resp, err), evaluated left to right with Go's
\* short-circuit ||.  resp and err are optional values; readResp tells
\* whether the evaluation dereferenced resp.
DefaultRetryRuleEval(resp, err) ==
    IF ~IsNil(err)
    THEN [result |-> TRUE, readResp |-> FALSE]
    ELSE [result |-> (Val(resp).StatusCode \in retriableStatus)
                        \/ Val(resp).StatusCode >= 500,
          readResp |-> TRUE]

DefaultRetryRule(resp, err) == DefaultRetryRuleEval(resp, err).result

\* The call data.RetryRule(resp, err): the default rule, or a rule supplied
\* by the caller (one that always retries, one that never does).
ApplyRetryRule(rule, resp, err) ==
    CASE rule = "always" -> TRUE
      [] rule = "never" -> FALSE
      [] OTHER -> DefaultRetryRule(resp, err)

(***************************************************************************)
(* Pieces of the standard library the executor relies on.                  *)
(***************************************************************************)

\* textproto.CanonicalMIMEHeaderKey over the keys used here.
CanonicalKey(k) ==
    CASE k = "accept" -> "Accept"
      [] k = "x-multi" -> "X-Multi"
      [] k = "x-bad" -> "X-Bad"
      [] k = "content-type" -> "Content-Type"
      [] OTHER -> k

\* json.Marshal of a []string: ["e1","e2"].
RECURSIVE JSONElems(_)
JSONElems(l) ==
    IF l = <<>> THEN <<>>
    ELSE <<"\"", Head(l), "\"">> \o
         (IF Len(l) > 1 THEN <<",">> ELSE <<>>) \o JSONElems(Tail(l))
JSONMarshal(l) == <<"[">> \o JSONElems(l) \o <<"]">>

(***************************************************************************)
(* State.                                                                  *)
(***************************************************************************)
VARIABLES
    middlewares,     \* Client.middlewares: the interceptor list
    ctxDone,         \* the caller's context is cancelled or expired
    method, url,     \* arguments of the call
    callerData,      \* the request data as the caller of the verb holds it
    server,          \* the handler behind url
    hdrHeap,         \* the header maps alive during the call
    srcRead,         \* bytes already read from a Body given as io.Reader
    call,            \* pending invocation of a link of the chain
    stack,           \* interceptors that called next and wait for it
    ret,             \* (Response, error) travelling back up the chain
    events,          \* log of interceptor and executor invocations
    data,            \* makeRequest: its copy of the request data
    bytesPayload,    \* makeRequest: bytesPayload
    requestBody,     \* makeRequest: requestBody
    resp, err,       \* makeRequest: resp and the named result err
    pc,              \* position of the call
    delay,           \* Retry: current backoff delay
    attempts,        \* Retry: invocations of the attempt so far
    retryAnswers,    \* Retry: what each attempt answered
    sleeps,          \* Retry: durations of the backoff sleeps performed
    sleepCancelled,  \* Retry: the context cut a backoff sleep short
    lastPair,        \* what the latest attempt obtained from the transport
    transportCalls,  \* requests handed to httpClient.Do
    streams,         \* response streams handed out by the transport
    result,          \* what the call returned to its caller
    ruleIn, ruleOut, \* argument and result of a DefaultRetryRule evaluation
    mp,              \* the multipart stream of the call
    aggErr,          \* the error accumulated by successive AppendErr calls
    contributed,     \* the errors handed to AppendErr so far, in order
    elapsed,         \* time since the first attempt started
    cursor,          \* the index shared by the next calls of the cursor-based chain
    frames,          \* per waiting interceptor: the data it received and its next calls
    arrays,          \* the backing arrays of the interceptor slices
    clients,         \* the Client values: the slice header of c.middlewares
    expected,        \* per Client value: the interceptors given to New and added to it
    inflight         \* the verb calls in progress on the Client values

vars == <<middlewares, ctxDone, method, url, callerData, server, hdrHeap, srcRead, call,
          stack, ret, events, data, bytesPayload, requestBody, resp, err, pc,
          delay, attempts, retryAnswers, sleeps, sleepCancelled, lastPair,
          transportCalls, streams, result, ruleIn, ruleOut, mp, aggErr,
          contributed, elapsed, cursor, frames, arrays, clients, expected,
          inflight>>

chainVars == <<call, stack, events, cursor, frames>>
clientVars == <<arrays, clients, expected, inflight>>
retryVars == <<delay, attempts, retryAnswers, sleeps, sleepCancelled, lastPair,
              elapsed>>
ruleVars == <<ruleIn, ruleOut>>
appendVars == <<aggErr, contributed>>
inputVars == <<middlewares, method, url, callerData, server>>

(***************************************************************************)
(* Client.makeRequest, the terminal executor.                              *)
(***************************************************************************)

\* Request bodies handed to http.NewRequestWithContext.
NilReader == [kind |-> "nil", bytes |-> <<>>]
BytesReader(b) == [kind |-> "bytes", bytes |-> b]
SourceReader == [kind |-> "source", bytes |-> <<>>]
MultipartReader(s) == [kind |-> "multipart", bytes |-> StreamBytes(s)]

\* newMultipartStream: the content type it returns for boundary b.
MultipartContentType(b) ==
    [kind |-> "string", v |-> <<"multipart/form-data; boundary=" \o b>>]
Boundaries == {"B1"}

\* A function extended or overwritten at key k.
MapSet(m, k, v) == [x \in DOMAIN m \cup {k} |-> IF x = k THEN v ELSE m[x]]

\* Variant: the multipart stream is created before MaxRetries is looked at.
MakeRequestPrologueChecksLate(d0, heap0) ==
    LET sd == SetDefaultsIfNecessary(d0, heap0)
        d == sd.data
        heap == sd.heap
        early(e) == [ret |-> Some([resp |-> ZeroResponse, err |-> Some(e)]),
                     data |-> d, heap |-> heap,
                     bytesPayload |-> Nil, requestBody |-> NilReader,
                     mp |-> NoMultipartStream]
        go(bp, rb, h) == [ret |-> Nil, data |-> d, heap |-> h,
                          bytesPayload |-> bp, requestBody |-> rb,
                          mp |-> NoMultipartStream]
    IN  CASE d.Body.kind = "nil" -> {go(Nil, NilReader, heap)}
          [] d.Body.kind = "reader" ->
                IF d.MaxRetries > 1 THEN {early(ErrReaderBody)}
                ELSE {go(Nil, SourceReader, heap)}
          [] d.Body.kind \in {"bytes", "string"} ->
                {go(Some(d.Body.val), NilReader, heap)}
          [] d.Body.kind = "multipart" ->
                IF d.MaxRetries > 1
                THEN { [early(ErrMultipartBody)
                        EXCEPT !.mp = NewMultipartStream(d.Body.val, o, b)]
                       : o \in Orders(d.Body.val), b \in Boundaries }
                ELSE { [go(Nil, MultipartReader(NewMultipartStream(d.Body.val, o, b)),
                           [heap EXCEPT ![d.Headers] =
                               MapSet(@, "Content-Type", MultipartContentType(b))])
                        EXCEPT !.mp = NewMultipartStream(d.Body.val, o, b)]
                       : o \in Orders(d.Body.val), b \in Boundaries }
          [] d.Body.kind = "json" ->
                {go(Some(JSONMarshal(d.Body.val)), NilReader, heap)}
          [] OTHER -> {early(ErrMarshal)}

\* Variant: the switch has no case for a string, which is then marshalled.
MakeRequestPrologueNoStringCase(d0, heap0) ==
    LET sd == SetDefaultsIfNecessary(d0, heap0)
        d == sd.data
        heap == sd.heap
        early(e) == [ret |-> Some([resp |-> ZeroResponse, err |-> Some(e)]),
                     data |-> d, heap |-> heap,
                     bytesPayload |-> Nil, requestBody |-> NilReader,
                     mp |-> NoMultipartStream]
        go(bp, rb, h) == [ret |-> Nil, data |-> d, heap |-> h,
                          bytesPayload |-> bp, requestBody |-> rb,
                          mp |-> NoMultipartStream]
    IN  CASE d.Body.kind = "nil" -> {go(Nil, NilReader, heap)}
          [] d.Body.kind = "reader" ->
                IF d.MaxRetries > 1 THEN {early(ErrReaderBody)}
                ELSE {go(Nil, SourceReader, heap)}
          [] d.Body.kind = "bytes" ->
                {go(Some(d.Body.val), NilReader, heap)}
          [] d.Body.kind = "string" ->
                {go(Some(JSONMarshal(d.Body.val)), NilReader, heap)}
          [] d.Body.kind = "multipart" ->
                IF d.MaxRetries > 1 THEN {early(ErrMultipartBody)}
                ELSE { [go(Nil, MultipartReader(NewMultipartStream(d.Body.val, o, b)),
                           [heap EXCEPT ![d.Headers] =
                               MapSet(@, "Content-Type", MultipartContentType(b))])
                        EXCEPT !.mp = NewMultipartStream(d.Body.val, o, b)]
                       : o \in Orders(d.Body.val), b \in Boundaries }
          [] d.Body.kind = "json" ->
                {go(Some(JSONMarshal(d.Body.val)), NilReader, heap)}
          [] OTHER -> {early(ErrMarshal)}

\* makeRequest up to the call of Retry: defaults, then the switch on the
\* type of data.Body.  The result is either an early return (ret is set) or
\* the locals the attempts work with.
MakeRequestPrologue(d0, heap0) ==
    LET sd == SetDefaultsIfNecessary(d0, heap0)
        d == sd.data
        heap == sd.heap
        early(e) == [ret |-> Some([resp |-> ZeroResponse, err |-> Some(e)]),
                     data |-> d, heap |-> heap,
                     bytesPayload |-> Nil, requestBody |-> NilReader,
                     mp |-> NoMultipartStream]
        go(bp, rb, h) == [ret |-> Nil, data |-> d, heap |-> h,
                          bytesPayload |-> bp, requestBody |-> rb,
                          mp |-> NoMultipartStream]
    IN  CASE d.Body.kind = "nil" -> {go(Nil, NilReader, heap)}
          [] d.Body.kind = "reader" ->
                IF d.MaxRetries > 1 THEN {early(ErrReaderBody)}
                ELSE {go(Nil, SourceReader, heap)}
          [] d.Body.kind \in {"bytes", "string"} ->
                {go(Some(d.Body.val), NilReader, heap)}
          [] d.Body.kind = "multipart" ->
                IF d.MaxRetries > 1 THEN {early(ErrMultipartBody)}
                ELSE { [go(Nil, MultipartReader(NewMultipartStream(d.Body.val, o, b)),
                           [heap EXCEPT ![d.Headers] =
                               MapSet(@, "Content-Type", MultipartContentType(b))])
                        EXCEPT !.mp = NewMultipartStream(d.Body.val, o, b)]
                       : o \in Orders(d.Body.val), b \in Boundaries }
          [] d.Body.kind = "json" ->
                {go(Some(JSONMarshal(d.Body.val)), NilReader, heap)}
          [] OTHER -> {early(ErrMarshal)}

\* What reading a request body to its end yields.
BodyBytesOf(rb, d, nread) ==
    CASE rb.kind \in {"bytes", "multipart"} -> rb.bytes
      [] rb.kind = "source" -> SubSeq(d.Body.val, nread + 1, Len(d.Body.val))
      [] OTHER -> <<>>

\* The loop over data.Headers: the headers of the request for one iteration
\* order of the map.  A string goes through Header.Set (canonical key, single
\* value), a []string is stored under the key as given.
HeaderKeyOf(k, v) == IF v.kind = "string" THEN CanonicalKey(k) ELSE k
BuildHeaders(m) ==
    LET keys == {HeaderKeyOf(k, m[k]) : k \in DOMAIN m}
    IN  { h \in [keys -> {m[k].v : k \in DOMAIN m}] :
            \A hk \in keys :
                \E k \in DOMAIN m : HeaderKeyOf(k, m[k]) = hk /\ h[hk] = m[k].v }
InvalidHeaderKeys(m) == {k \in DOMAIN m : m[k].kind \notin {"string", "list"}}

\* httpClient.Do: the outcomes the transport can produce.
\* A response carries its status, its headers and, as Body, the stream id.
TransportOutcomes(cancelled, srv, id) ==
    IF cancelled THEN {[resp |-> Nil, err |-> Some(ErrCtx)]}
    ELSE {[resp |-> Nil, err |-> Some(ErrTransport)],
          [resp |-> Nil, err |-> Some(ErrTimeout)]} \cup
         { [resp |-> Some([StatusCode |-> st, Header |-> srv.header, Body |-> id]),
            err |-> Nil] : st \in Statuses }

\* Variant: the timer of http.Client.Timeout is not what ends a call.
AttemptDurationNone(o) == 0

\* The time one call of httpClient.Do takes: the client's Timeout when the
\* call is ended by the timer that http.Client starts for it, a negligible
\* time otherwise.
AttemptDuration(o) == IF o.err = Some(ErrTimeout) THEN ClientTimeout ELSE 0

\* Variant: the rule supplied by the caller is ignored.
AttemptAnswerDefaultOnly(d, r, e) == DefaultRetryRule(r, e)

\* The answer of the attempt after httpClient.Do: return data.RetryRule(resp, err).
AttemptAnswer(d, r, e) == ApplyRetryRule(d.RetryRule, r, e)

\* Variant: an error of httpClient.Do is kept across attempts (err is only
\* overwritten by a later error, never reset to nil).
AttemptFnStickyErr(d, heap, bp, rb, r0, e0, nread, cancelled, srv, id, m, u) ==
    LET rb1 == IF ~IsNil(bp) THEN BytesReader(Val(bp)) ELSE rb
        hm == heap[d.Headers]
    IN  IF ~ValidMethod(m)
        THEN {[requestBody |-> rb1, resp |-> r0, err |-> Some(ErrNewRequest),
               retry |-> TRUE, sent |-> Nil,
               got |-> [resp |-> Nil, err |-> Some(ErrNewRequest)]]}
        ELSE IF InvalidHeaderKeys(hm) # {}
        THEN {[requestBody |-> rb1, resp |-> r0, err |-> Some(ErrInvalidHeader(k)),
               retry |-> FALSE, sent |-> Nil,
               got |-> [resp |-> Nil, err |-> Some(ErrInvalidHeader(k))]]
               : k \in InvalidHeaderKeys(hm)}
        ELSE {[requestBody |-> rb1, resp |-> o.resp,
               err |-> IF IsNil(o.err) THEN e0 ELSE o.err,
               retry |-> AttemptAnswer(d, o.resp, o.err),
               sent |-> Some([body |-> BodyBytesOf(rb1, d, nread), header |-> h,
                              kind |-> rb1.kind]),
               got |-> o]
               : o \in TransportOutcomes(cancelled, srv, id), h \in BuildHeaders(hm)}

\* Variant: the reader over bytesPayload is created once, before the loop,
\* and a later attempt finds it consumed.
AttemptFnConsumedBody(d, heap, bp, rb, r0, e0, nread, cancelled, srv, id, m, u) ==
    LET rb1 == IF IsNil(bp) THEN rb
               ELSE IF IsNil(r0) /\ IsNil(e0) THEN BytesReader(Val(bp))
               ELSE BytesReader(<<>>)
        hm == heap[d.Headers]
    IN  IF ~ValidMethod(m)
        THEN {[requestBody |-> rb1, resp |-> r0, err |-> Some(ErrNewRequest),
               retry |-> TRUE, sent |-> Nil,
               got |-> [resp |-> Nil, err |-> Some(ErrNewRequest)]]}
        ELSE IF InvalidHeaderKeys(hm) # {}
        THEN {[requestBody |-> rb1, resp |-> r0, err |-> Some(ErrInvalidHeader(k)),
               retry |-> FALSE, sent |-> Nil,
               got |-> [resp |-> Nil, err |-> Some(ErrInvalidHeader(k))]]
               : k \in InvalidHeaderKeys(hm)}
        ELSE {[requestBody |-> rb1, resp |-> o.resp, err |-> o.err,
               retry |-> AttemptAnswer(d, o.resp, o.err),
               sent |-> Some([body |-> BodyBytesOf(rb1, d, nread), header |-> h,
                              kind |-> rb1.kind]),
               got |-> o]
               : o \in TransportOutcomes(cancelled, srv, id), h \in BuildHeaders(hm)}

\* One run of the attempt closure handed to Retry.  It yields the new values
\* of the captured variables, the answer (retry or not), the request handed
\* to the transport if any (sent) and what this run obtained (got).
AttemptFn(d, heap, bp, rb, r0, e0, nread, cancelled, srv, id, m, u) ==
    LET rb1 == IF ~IsNil(bp) THEN BytesReader(Val(bp)) ELSE rb
        hm == heap[d.Headers]
    IN  IF ~ValidMethod(m)
        THEN {[requestBody |-> rb1, resp |-> r0, err |-> Some(ErrNewRequest),
               retry |-> TRUE, sent |-> Nil,
               got |-> [resp |-> Nil, err |-> Some(ErrNewRequest)]]}
        ELSE IF InvalidHeaderKeys(hm) # {}
        THEN {[requestBody |-> rb1, resp |-> r0, err |-> Some(ErrInvalidHeader(k)),
               retry |-> FALSE, sent |-> Nil,
               got |-> [resp |-> Nil, err |-> Some(ErrInvalidHeader(k))]]
               : k \in InvalidHeaderKeys(hm)}
        ELSE {[requestBody |-> rb1, resp |-> o.resp, err |-> o.err,
               retry |-> AttemptAnswer(d, o.resp, o.err),
               sent |-> Some([body |-> BodyBytesOf(rb1, d, nread), header |-> h,
                              kind |-> rb1.kind]),
               got |-> o]
               : o \in TransportOutcomes(cancelled, srv, id), h \in BuildHeaders(hm)}

\* makeRequest after Retry has returned: the early return on err, the
\* buffering of the response body and the classification of the status.
\* Reading the body either reaches its end or fails after n bytes.
\* Variant: the upper bound of the success range is inclusive.
isStatusSuccessUpTo300(status) == status >= 200 /\ status <= 300

isStatusSuccess(status) == status >= 200 /\ status < 300

\* Variant: the populated Response is dropped whenever an error is returned.
MakeRequestEpilogueDropsResponse(d, r, e, strms, m, u) ==
    IF ~IsNil(e)
    THEN {[resp |-> ZeroResponse, err |-> e, streams |-> strms]}
    ELSE LET rv == Val(r)
             ok == isStatusSuccess(rv.StatusCode)
             payload == strms[rv.Body].payload
         IN  IF d.Stream /\ ok
             THEN {[resp |-> Response(TransportHandle(rv.Body), Nil,
                                      Some(rv.Header), rv.StatusCode),
                    err |-> Nil, streams |-> strms]}
             ELSE { LET body == SubSeq(payload, 1, rd.n)
                        e1 == IF rd.ok THEN Nil ELSE Some(ErrBodyRead)
                        e2 == IF IsNil(e1) /\ ~ok
                              THEN Some(ErrUnexpectedStatus(m, u, rv.StatusCode, body))
                              ELSE e1
                    IN  [resp |-> IF IsNil(e2)
                                  THEN Response(BufferHandle(body), Some(body),
                                                Some(rv.Header), rv.StatusCode)
                                  ELSE ZeroResponse,
                         err |-> e2,
                         streams |-> [strms EXCEPT ![rv.Body] =
                                        [@ EXCEPT !.closed = TRUE, !.closes = @ + 1,
                                                  !.read = rd.n]]]
                    : rd \in {[ok |-> TRUE, n |-> Len(payload)]} \cup
                             {[ok |-> FALSE, n |-> n] : n \in 0..Len(payload)} }

\* Variant: with Stream set the body is left unread whatever the status.
MakeRequestEpilogueStreamsAnyStatus(d, r, e, strms, m, u) ==
    IF ~IsNil(e)
    THEN {[resp |-> ZeroResponse, err |-> e, streams |-> strms]}
    ELSE LET rv == Val(r)
             ok == isStatusSuccess(rv.StatusCode)
             payload == strms[rv.Body].payload
         IN  IF d.Stream
             THEN {[resp |-> Response(TransportHandle(rv.Body), Nil,
                                      Some(rv.Header), rv.StatusCode),
                    err |-> Nil, streams |-> strms]}
             ELSE { LET body == SubSeq(payload, 1, rd.n)
                        e1 == IF rd.ok THEN Nil ELSE Some(ErrBodyRead)
                        e2 == IF IsNil(e1) /\ ~ok
                              THEN Some(ErrUnexpectedStatus(m, u, rv.StatusCode, body))
                              ELSE e1
                    IN  [resp |-> Response(BufferHandle(body), Some(body),
                                           Some(rv.Header), rv.StatusCode),
                         err |-> e2,
                         streams |-> [strms EXCEPT ![rv.Body] =
                                        [@ EXCEPT !.closed = TRUE, !.closes = @ + 1,
                                                  !.read = rd.n]]]
                    : rd \in {[ok |-> TRUE, n |-> Len(payload)]} \cup
                             {[ok |-> FALSE, n |-> n] : n \in 0..Len(payload)} }

\* Variant: the handle of a buffered Response is still the transport's stream.
MakeRequestEpilogueKeepsStream(d, r, e, strms, m, u) ==
    IF ~IsNil(e)
    THEN {[resp |-> ZeroResponse, err |-> e, streams |-> strms]}
    ELSE LET rv == Val(r)
             ok == isStatusSuccess(rv.StatusCode)
             payload == strms[rv.Body].payload
         IN  IF d.Stream /\ ok
             THEN {[resp |-> Response(TransportHandle(rv.Body), Nil,
                                      Some(rv.Header), rv.StatusCode),
                    err |-> Nil, streams |-> strms]}
             ELSE { LET body == SubSeq(payload, 1, rd.n)
                        e1 == IF rd.ok THEN Nil ELSE Some(ErrBodyRead)
                        e2 == IF IsNil(e1) /\ ~ok
                              THEN Some(ErrUnexpectedStatus(m, u, rv.StatusCode, body))
                              ELSE e1
                    IN  [resp |-> Response(TransportHandle(rv.Body), Some(body),
                                           Some(rv.Header), rv.StatusCode),
                         err |-> e2,
                         streams |-> [strms EXCEPT ![rv.Body] =
                                        [@ EXCEPT !.closed = TRUE, !.closes = @ + 1,
                                                  !.read = rd.n]]]
                    : rd \in {[ok |-> TRUE, n |-> Len(payload)]} \cup
                             {[ok |-> FALSE, n |-> n] : n \in 0..Len(payload)} }

MakeRequestEpilogue(d, r, e, strms, m, u) ==
    IF ~IsNil(e)
    THEN {[resp |-> ZeroResponse, err |-> e, streams |-> strms]}
    ELSE LET rv == Val(r)
             ok == isStatusSuccess(rv.StatusCode)
             payload == strms[rv.Body].payload
         IN  IF d.Stream /\ ok
             THEN {[resp |-> Response(TransportHandle(rv.Body), Nil,
                                      Some(rv.Header), rv.StatusCode),
                    err |-> Nil, streams |-> strms]}
             ELSE { LET body == SubSeq(payload, 1, rd.n)
                        e1 == IF rd.ok THEN Nil ELSE Some(ErrBodyRead)
                        e2 == IF IsNil(e1) /\ ~ok
                              THEN Some(ErrUnexpectedStatus(m, u, rv.StatusCode, body))
                              ELSE e1
                    IN  [resp |-> Response(BufferHandle(body), Some(body),
                                           Some(rv.Header), rv.StatusCode),
                         err |-> e2,
                         streams |-> [strms EXCEPT ![rv.Body] =
                                        [@ EXCEPT !.closed = TRUE, !.closes = @ + 1,
                                                  !.read = rd.n]]]
                    : rd \in {[ok |-> TRUE, n |-> Len(payload)]} \cup
                             {[ok |-> FALSE, n |-> n] : n \in 0..Len(payload)} }

(***************************************************************************)
(* Retry(ctx, baseDelay, maxDelay, maxAttempts, attempt).                  *)
(***************************************************************************)

\* Variant: the two delays are passed in the wrong order.
RetryArgsSwapped(d) ==
    [baseDelay |-> d.MaxRetryDelay, maxDelay |-> d.BaseRetryDelay,
     maxAttempts |-> d.MaxRetries]

\* Variant: MaxRetries is taken as the number of retries after the first attempt.
RetryArgsOffByOne(d) ==
    [baseDelay |-> d.BaseRetryDelay, maxDelay |-> d.MaxRetryDelay,
     maxAttempts |-> d.MaxRetries + 1]

\* The arguments makeRequest passes to Retry.
RetryArgs(d) ==
    [baseDelay |-> d.BaseRetryDelay, maxDelay |-> d.MaxRetryDelay,
     maxAttempts |-> d.MaxRetries]

\* After the n-th attempt answered retry, does the loop stop?
RetryStops(retry, n, maxAttempts) == ~retry \/ n >= maxAttempts

\* The sleep performed with the current delay, and the delay after it.
RetrySleepDuration(d, maxDelay) == Min(d, maxDelay)
RetryNextDelay(d, maxDelay) == Min(d * 2, maxDelay)

(***************************************************************************)
(* Actions of the executor.                                                *)
(***************************************************************************)

\* An entry of the log: who (0 the executor, i interceptor[i-1]) did what,
\* with the request data received and passed on, or the (Response, error)
\* received and returned.
Event(who, phase, dIn, dOut, pIn, pOut) ==
    [who |-> who, phase |-> phase, dataIn |-> dIn, dataOut |-> dOut,
     pairIn |-> pIn, pairOut |-> pOut]

\* makeRequest is entered with data and runs up to the call of Retry.
MakeRequestBegin ==
    /\ pc = "begin"
    /\ \E o \in MakeRequestPrologue(data, hdrHeap) :
        /\ data' = o.data
        /\ hdrHeap' = o.heap
        /\ bytesPayload' = o.bytesPayload
        /\ requestBody' = o.requestBody
        /\ mp' = o.mp
        /\ IF IsNil(o.ret)
           THEN /\ pc' = "retry"
                /\ delay' = RetryArgs(o.data).baseDelay
                /\ ret' = ret
                /\ events' = Append(events, Event(0, "run", Some(data), Nil, Nil, Nil))
           ELSE /\ pc' = "return"
                /\ ret' = o.ret
                /\ delay' = delay
                /\ events' = events \o <<Event(0, "run", Some(data), Nil, Nil, Nil),
                                          Event(0, "return", Nil, Nil, Nil, o.ret)>>
    /\ resp' = Nil
    /\ err' = Nil
    /\ attempts' = 0
    /\ retryAnswers' = <<>>
    /\ sleeps' = <<>>
    /\ sleepCancelled' = FALSE
    /\ lastPair' = [resp |-> Nil, err |-> Nil]
    /\ elapsed' = 0
    /\ UNCHANGED <<inputVars, ctxDone, srcRead, call, stack, cursor, frames,
                   transportCalls, streams, result, ruleVars, appendVars,
                   clientVars>>

\* Retry invokes the attempt and decides whether to go on.
RetryAttempt ==
    /\ pc = "retry"
    /\ \E o \in AttemptFn(data, hdrHeap, bytesPayload, requestBody, resp, err,
                          srcRead, ctxDone, server, Len(streams) + 1,
                          method, url) :
        /\ requestBody' = o.requestBody
        /\ resp' = o.resp
        /\ err' = o.err
        /\ attempts' = attempts + 1
        /\ retryAnswers' = Append(retryAnswers, o.retry)
        /\ transportCalls' = transportCalls \o o.sent
        /\ srcRead' = IF ~IsNil(o.sent) /\ Val(o.sent).kind = "source"
                      THEN Len(data.Body.val) ELSE srcRead
        /\ streams' = IF ~IsNil(o.sent) /\ ~IsNil(o.resp)
                      THEN Append(streams, [payload |-> server.payload,
                                            closed |-> FALSE, closes |-> 0,
                                            read |-> 0])
                      ELSE streams
        /\ lastPair' = o.got
        /\ elapsed' = elapsed + (IF IsNil(o.sent) THEN 0 ELSE AttemptDuration(o.got))
        /\ mp' = IF ~IsNil(o.sent) /\ Val(o.sent).kind = "multipart"
                 THEN Drained(mp) ELSE mp
        /\ pc' = IF RetryStops(o.retry, attempts + 1, RetryArgs(data).maxAttempts)
                 THEN "epilogue" ELSE "sleep"
    /\ UNCHANGED <<inputVars, ctxDone, hdrHeap, chainVars, ret, data,
                   bytesPayload, delay, sleeps, sleepCancelled, result, ruleVars, appendVars,
                   clientVars>>

\* The backoff sleep runs to its end.
RetrySleepElapsed ==
    /\ pc = "sleep"
    /\ ~ctxDone
    /\ sleeps' = Append(sleeps, RetrySleepDuration(delay, RetryArgs(data).maxDelay))
    /\ delay' = RetryNextDelay(delay, RetryArgs(data).maxDelay)
    /\ elapsed' = elapsed + RetrySleepDuration(delay, RetryArgs(data).maxDelay)
    /\ pc' = "retry"
    /\ UNCHANGED <<inputVars, mp, ctxDone, hdrHeap, srcRead, chainVars, ret, data,
                   bytesPayload, requestBody, resp, err, attempts, retryAnswers,
                   sleepCancelled, lastPair, transportCalls, streams, result,
                   ruleVars, appendVars, clientVars>>

\* The backoff sleep is cut short by the context: Retry returns.
RetrySleepCancelled ==
    /\ pc = "sleep"
    /\ ctxDone
    /\ sleepCancelled' = TRUE
    /\ pc' = "epilogue"
    /\ UNCHANGED <<inputVars, mp, ctxDone, hdrHeap, srcRead, chainVars, ret, data,
                   bytesPayload, requestBody, resp, err, delay, attempts,
                   retryAnswers, sleeps, lastPair, elapsed, transportCalls, streams,
                   result, ruleVars, appendVars, clientVars>>

\* makeRequest from the return of Retry to its own return.
MakeRequestEnd ==
    /\ pc = "epilogue"
    /\ \E o \in MakeRequestEpilogue(data, resp, err, streams, method, url) :
        /\ ret' = Some([resp |-> o.resp, err |-> o.err])
        /\ err' = o.err
        /\ streams' = o.streams
        /\ events' = Append(events, Event(0, "return", Nil, Nil, Nil,
                                          Some([resp |-> o.resp, err |-> o.err])))
    /\ pc' = "return"
    /\ UNCHANGED <<inputVars, mp, ctxDone, hdrHeap, srcRead, call, stack, cursor, frames,
                   data,
                   bytesPayload, requestBody, resp, retryVars, transportCalls,
                   result, ruleVars, appendVars, clientVars>>

\* The caller cancels its context, or the context's deadline passes.
Cancel ==
    /\ ~ctxDone
    /\ pc \notin {"done", "rule"}
    /\ ctxDone' = TRUE
    /\ UNCHANGED <<inputVars, mp, hdrHeap, srcRead, chainVars, ret, data,
                   bytesPayload, requestBody, resp, err, pc, retryVars,
                   transportCalls, streams, result, ruleVars, appendVars,
                   clientVars>>

\* The outermost link of the chain returns to the caller of the verb.
ReturnToCaller ==
    /\ pc = "return"
    /\ stack = <<>>
    /\ result' = ret
    /\ ret' = Nil
    /\ pc' = "done"
    /\ UNCHANGED <<inputVars, mp, ctxDone, hdrHeap, srcRead, chainVars, data,
                   bytesPayload, requestBody, resp, err, retryVars,
                   transportCalls, streams, ruleVars, appendVars, clientVars>>

(***************************************************************************)
(* Client.makeRequestWithMiddlewares: the chain of interceptors.           *)
(***************************************************************************)

\* The loop that builds the chain back to front.  Each iteration makes one
\* closure capturing its index i and the head of the chain so far; a handle
\* is 0 for c.makeRequest or the position of a closure in links.
RECURSIVE ComposeFrom(_, _, _)
ComposeFrom(i, links, head) ==
    IF i < 1 THEN [links |-> links, head |-> head]
    ELSE ComposeFrom(i - 1, Append(links, [mw |-> i, next |-> head]),
                     Len(links) + 1)

\* Variant: the chain is built front to back.
RECURSIVE ComposeForward(_, _, _, _)
ComposeForward(i, n, links, head) ==
    IF i > n THEN [links |-> links, head |-> head]
    ELSE ComposeForward(i + 1, n, Append(links, [mw |-> i, next |-> head]),
                        Len(links) + 1)
ComposeChainForward(mws) == ComposeForward(1, Len(mws), <<>>, 0)

\* Variant: the loop stops one interceptor early (i > 0 instead of i >= 0).
RECURSIVE ComposeSkipping(_, _, _)
ComposeSkipping(i, links, head) ==
    IF i <= 1 THEN [links |-> links, head |-> head]
    ELSE ComposeSkipping(i - 1, Append(links, [mw |-> i, next |-> head]),
                         Len(links) + 1)
ComposeChainSkipFirst(mws) == ComposeSkipping(Len(mws), <<>>, 0)

ComposeChain(mws) == ComposeFrom(Len(mws), <<>>, 0)

\* Interceptors of the tests: "tag" changes the request data, calls next and
\* changes what next returned; "abort" returns without calling next; "pass"
\* only calls next.
MiddlewareKinds == {"tag", "abort", "pass"}
MwName(i) ==
    <<"firstMiddleware", "secondMiddleware", "thirdMiddleware",
      "fourthMiddleware">>[i]
ErrFromMw(i) == PlainErr("middleware", <<"err from ", MwName(i)>>)
ErrAbort == PlainErr("middleware", <<"abortingRequest">>)

\* AppendErr and multierr of the tests.
MultiErr(es) == [kind |-> "multierr", text |-> <<>>, errs |-> es]

\* Variant: an aggregate is not recognised, the two errors are always paired.
AppendErrPairs(oldErr, newErr) ==
    IF IsNil(oldErr) THEN newErr
    ELSE IF IsNil(newErr) THEN oldErr
    ELSE Some(MultiErr(<<Val(oldErr), Val(newErr)>>))

AppendErr(oldErr, newErr) ==
    IF IsNil(oldErr) THEN newErr
    ELSE IF IsNil(newErr) THEN oldErr
    ELSE IF Val(oldErr).kind = "multierr"
    THEN Some(MultiErr(Append(Val(oldErr).errs, Val(newErr))))
    ELSE Some(MultiErr(<<Val(oldErr), Val(newErr)>>))

\* What interceptor i does to the data before next and to the pair after it.
MwBefore(kind, i, d) ==
    IF kind = "tag" THEN [d EXCEPT !.Body.val = Append(@, MwName(i))] ELSE d
MwAfter(kind, i, p) ==
    IF kind = "tag"
    THEN [resp |-> [p.resp EXCEPT !.Body =
                        Some((IF IsNil(@) THEN <<>> ELSE Val(@)) \o <<"+", MwName(i)>>)],
          err |-> AppendErr(p.err, Some(ErrFromMw(i)))]
    ELSE p

\* The earlier makeRequestWithMiddlewares keeps one index for the whole
\* call: every call of nextMiddleware increments it and then runs the
\* interceptor at that index, or c.makeRequest past the end of the list.
\* An interceptor is named by its position (from 1), c.makeRequest by 0.

\* Variant: the index is incremented twice per call of next.
CursorAdvanceTwice(i) == i + 2

CursorAdvance(i) == i + 1
CursorTarget(i, mws) == IF i < Len(mws) THEN i + 1 ELSE 0

\* An interceptor of kind "twice" calls next, and when that call has returned
\* calls next once more, with data it has marked, and returns what the second
\* call returned.
CallsNextAgain(kind, calls) == kind = "twice" /\ calls < 2
MwAgain(i, d) == [d EXCEPT !.Body.val = Append(@, "again")]

\* Variant: a later call of next goes one link further down the chain.
CapturedNextSkipping(i, mws) ==
    LET links == ComposeChain(mws).links
        t == CHOOSE t \in 1..Len(links) : links[t].mw = i
    IN  IF links[t].next = 0 THEN 0 ELSE links[links[t].next].next

\* The nextMiddleware that the closure running interceptor i has captured.
CapturedNext(i, mws) ==
    LET links == ComposeChain(mws).links
        t == CHOOSE t \in 1..Len(links) : links[t].mw = i
    IN  links[t].next

\* What a handle of the nested chain runs.
NestedTarget(t, mws) == IF t = 0 THEN 0 ELSE ComposeChain(mws).links[t].mw

\* A verb is called: the chain is built and its head invoked.
CallVerb ==
    /\ pc = "idle"
    /\ call' = Some([target |-> ComposeChain(middlewares).head, data |-> callerData])
    /\ cursor' = CursorAdvance(cursor)
    /\ pc' = "chain"
    /\ UNCHANGED <<inputVars, mp, ctxDone, hdrHeap, srcRead, stack, frames, ret, events,
                   data, bytesPayload, requestBody, resp, err, retryVars,
                   transportCalls, streams, result, ruleVars, appendVars,
                   clientVars>>

\* A closure of the chain runs interceptor i up to its call of next, or to
\* its return when it does not call next.
MiddlewareEnter ==
    /\ pc = "chain"
    /\ ~IsNil(call)
    /\ Val(call).target # 0
    /\ LET link == ComposeChain(middlewares).links[Val(call).target]
           i == link.mw
           kind == middlewares[i]
           d == Val(call).data
           d1 == MwBefore(kind, i, d)
       IN  IF kind = "abort"
           THEN /\ ret' = Some([resp |-> ZeroResponse, err |-> Some(ErrAbort)])
                /\ call' = Nil
                /\ pc' = "return"
                /\ stack' = stack
                /\ cursor' = cursor
                /\ frames' = frames
                /\ events' = Append(events,
                       Event(i, "abort", Some(d), Nil, Nil,
                             Some([resp |-> ZeroResponse, err |-> Some(ErrAbort)])))
           ELSE /\ call' = Some([target |-> link.next, data |-> d1])
                /\ stack' = Append(stack, i)
                /\ cursor' = CursorAdvance(cursor)
                /\ frames' = Append(frames, [data |-> d, calls |-> 1])
                /\ events' = Append(events, Event(i, "before", Some(d), Some(d1), Nil, Nil))
                /\ UNCHANGED <<ret, pc, clientVars>>
    /\ UNCHANGED <<inputVars, mp, ctxDone, hdrHeap, srcRead, data, bytesPayload,
                   requestBody, resp, err, retryVars, transportCalls, streams,
                   result, ruleVars, appendVars, clientVars>>

\* The last closure invokes c.makeRequest with the data it was given.
ExecutorEnter ==
    /\ pc = "chain"
    /\ ~IsNil(call)
    /\ Val(call).target = 0
    /\ data' = Val(call).data
    /\ call' = Nil
    /\ pc' = "begin"
    /\ UNCHANGED <<inputVars, mp, ctxDone, hdrHeap, srcRead, stack, ret, events,
                   cursor, frames, bytesPayload, requestBody, resp, err, retryVars,
                   transportCalls, streams, result, ruleVars, appendVars,
                   clientVars>>

\* next returns into the interceptor that called it, which runs to its end.
MiddlewareLeave ==
    /\ pc = "return"
    /\ stack # <<>>
    /\ ~CallsNextAgain(middlewares[stack[Len(stack)]], frames[Len(frames)].calls)
    /\ LET i == stack[Len(stack)]
           p == MwAfter(middlewares[i], i, Val(ret))
       IN  /\ ret' = Some(p)
           /\ events' = Append(events, Event(i, "after", Nil, Nil, ret, Some(p)))
    /\ stack' = SubSeq(stack, 1, Len(stack) - 1)
    /\ frames' = SubSeq(frames, 1, Len(frames) - 1)
    /\ UNCHANGED <<inputVars, mp, ctxDone, hdrHeap, srcRead, call, cursor, data,
                   bytesPayload, requestBody, resp, err, pc, retryVars,
                   transportCalls, streams, result, ruleVars, appendVars,
                   clientVars>>

\* next returns into an interceptor that calls it once more: the closure it
\* captured runs again.
MiddlewareNextAgain ==
    /\ pc = "return"
    /\ stack # <<>>
    /\ CallsNextAgain(middlewares[stack[Len(stack)]], frames[Len(frames)].calls)
    /\ LET i == stack[Len(stack)]
           d == frames[Len(frames)].data
           d2 == MwAgain(i, d)
       IN  /\ call' = Some([target |-> CapturedNext(i, middlewares), data |-> d2])
           /\ events' = Append(events, Event(i, "again", Some(d), Some(d2), ret, Nil))
    /\ frames' = [frames EXCEPT ![Len(frames)].calls = @ + 1]
    /\ cursor' = CursorAdvance(cursor)
    /\ ret' = Nil
    /\ pc' = "chain"
    /\ UNCHANGED <<inputVars, mp, ctxDone, hdrHeap, srcRead, stack, data,
                   bytesPayload, requestBody, resp, err, retryVars,
                   transportCalls, streams, result, ruleVars, appendVars,
                   clientVars>>

(***************************************************************************)
(* Specification of one direct call of makeRequest.                        *)
(***************************************************************************)
RequestInputs ==
    { [body |-> b, headers |-> h, maxRetries |-> n, baseDelay |-> bd,
       maxDelay |-> md, rule |-> r, stream |-> s]
      : b \in BodyInputs, h \in HeaderInputs, n \in (-1)..MaxAttempts,
        bd \in BaseDelayInputs, md \in MaxDelayInputs, r \in RetryRules,
        s \in BOOLEAN }

\* The request data and the heap of header maps built from an input.
DataOf(in) ==
    RequestData(in.body, IF IsNil(in.headers) THEN 0 ELSE 1, in.maxRetries,
                in.baseDelay, in.maxDelay, in.rule, in.stream)
HeapOf(in) == IF IsNil(in.headers) THEN <<>> ELSE <<Val(in.headers)>>

NoRuleInput == [resp |-> Nil, err |-> Nil]

InitLocals ==
    /\ ctxDone = FALSE
    /\ srcRead = 0
    /\ stack = <<>>
    /\ ret = Nil
    /\ events = <<>>
    /\ bytesPayload = Nil
    /\ requestBody = NilReader
    /\ resp = Nil
    /\ err = Nil
    /\ delay = 0
    /\ attempts = 0
    /\ retryAnswers = <<>>
    /\ sleeps = <<>>
    /\ sleepCancelled = FALSE
    /\ lastPair = [resp |-> Nil, err |-> Nil]
    /\ transportCalls = <<>>
    /\ streams = <<>>
    /\ result = Nil
    /\ aggErr = Nil
    /\ contributed = <<>>
    /\ elapsed = 0
    /\ cursor = -1
    /\ frames = <<>>

\* No client value is looked at.
InitNoClients ==
    /\ arrays = <<>>
    /\ clients = <<>>
    /\ expected = <<>>
    /\ inflight = <<>>

Init ==
    /\ InitLocals
    /\ InitNoClients
    /\ middlewares = <<>>
    /\ method \in Methods
    /\ url \in Urls
    /\ server \in Servers
    /\ \E in \in RequestInputs :
        /\ callerData = DataOf(in)
        /\ hdrHeap = HeapOf(in)
    /\ data = callerData
    /\ call = Nil
    /\ pc = "begin"
    /\ ruleIn = NoRuleInput
    /\ ruleOut = Nil
    /\ mp = NoMultipartStream

Next ==
    \/ MakeRequestBegin
    \/ RetryAttempt
    \/ RetrySleepElapsed
    \/ RetrySleepCancelled
    \/ MakeRequestEnd
    \/ Cancel
    \/ ReturnToCaller

Spec == Init /\ [][Next]_vars

(***************************************************************************)
(* Specification of one verb call through the chain of interceptors.       *)
(***************************************************************************)
ZeroRequestData == RequestData(BodyNil, 0, 0, 0, 0, "nil", FALSE)

MiddlewareLists == UNION {[1..n -> MiddlewareKinds] : n \in 0..MaxMiddlewares}

ChainRequestInputs ==
    { [body |-> BodyJSON(<<"bodyFromRequest">>), headers |-> h, maxRetries |-> n,
       baseDelay |-> 0, maxDelay |-> 0, rule |-> "nil", stream |-> s]
      : h \in {Nil, Some([k \in {"accept"} |-> HdrString("application/json")])},
        n \in {0, 2}, s \in BOOLEAN }

InitChain ==
    /\ InitLocals
    /\ InitNoClients
    /\ middlewares \in MiddlewareLists
    /\ method = "POST"
    /\ url \in Urls
    /\ server \in Servers
    /\ \E in \in ChainRequestInputs :
        /\ callerData = DataOf(in)
        /\ hdrHeap = HeapOf(in)
    /\ data = ZeroRequestData
    /\ call = Nil
    /\ pc = "idle"
    /\ ruleIn = NoRuleInput
    /\ ruleOut = Nil
    /\ mp = NoMultipartStream

NextChain ==
    \/ CallVerb
    \/ MiddlewareEnter
    \/ ExecutorEnter
    \/ MiddlewareLeave
    \/ MakeRequestBegin
    \/ RetryAttempt
    \/ RetrySleepElapsed
    \/ RetrySleepCancelled
    \/ MakeRequestEnd
    \/ Cancel
    \/ ReturnToCaller

SpecChain == InitChain /\ [][NextChain]_vars

(***************************************************************************)
(* Client values: New, AddMiddleware and copies of a Client.               *)
(***************************************************************************)

\* c.middlewares is a slice: a backing array (0 for the nil slice) and a
\* length; the capacity is the length of the backing array.
NilSlice == [arr |-> 0, len |-> 0]
SliceCap(arrs, sl) == IF sl.arr = 0 THEN 0 ELSE Len(arrs[sl.arr])
SliceList(arrs, sl) == IF sl.arr = 0 THEN <<>> ELSE SubSeq(arrs[sl.arr], 1, sl.len)

\* The interceptors handed to New and AddMiddleware, told apart by name.
InterceptorName(j) == <<"m1", "m2", "m3", "m4", "m5", "m6", "m7", "m8">>[j]
Interceptors(from, n) == [k \in 1..n |-> InterceptorName(from + k - 1)]

\* How many interceptors the program has handed to its clients so far.
Handed ==
    Cardinality(UNION {{expected[c][k] : k \in 1..Len(expected[c])}
                       : c \in 1..Len(expected)})

\* The capacities append may give the array it allocates: the language fixes
\* no more than that it is large enough.
AppendCaps(oldCap, needed) == needed..Max(needed, 2 * oldCap)

\* What append allocates: a copy of the list, the new elements, free room.
Grown(arrs, sl, ms, cp) ==
    SliceList(arrs, sl) \o ms \o [k \in 1..(cp - sl.len - Len(ms)) |-> "none"]

\* append(sl, ms...): the new elements are written into the backing array
\* when its capacity suffices, into a new array holding a copy otherwise.
GoAppend(arrs, sl, ms) ==
    IF sl.len + Len(ms) <= SliceCap(arrs, sl)
    THEN { [arrays |-> [arrs EXCEPT ![sl.arr] =
                           [k \in 1..Len(@) |->
                               IF k > sl.len /\ k <= sl.len + Len(ms)
                               THEN ms[k - sl.len] ELSE @[k]]],
            slice |-> [sl EXCEPT !.len = @ + Len(ms)]] }
    ELSE { [arrays |-> Append(arrs, Grown(arrs, sl, ms, cp)),
            slice |-> [arr |-> Len(arrs) + 1, len |-> sl.len + Len(ms)]]
           : cp \in AppendCaps(SliceCap(arrs, sl), sl.len + Len(ms)) }

\* New(timeout, ms...): the variadic arguments are the slice of the client.
ClientNew ==
    /\ pc = "clients"
    /\ clients = <<>>
    /\ \E n \in 0..2 :
        LET ms == Interceptors(1, n)
        IN  /\ arrays' = IF n = 0 THEN arrays ELSE Append(arrays, ms)
            /\ clients' = <<IF n = 0 THEN NilSlice
                            ELSE [arr |-> Len(arrays) + 1, len |-> n]>>
            /\ expected' = <<ms>>
    /\ UNCHANGED <<inputVars, mp, ctxDone, hdrHeap, srcRead, chainVars, ret, data,
                   bytesPayload, requestBody, resp, err, pc, retryVars,
                   transportCalls, streams, result, ruleVars, appendVars, inflight>>

\* c.AddMiddleware(ms...) on the client value c.
ClientAddMiddleware ==
    /\ pc = "clients"
    /\ \E c \in 1..Len(clients) : \E n \in 1..2 :
        /\ Handed + n <= MaxInterceptors
        /\ LET ms == Interceptors(Handed + 1, n)
           IN  /\ \E o \in GoAppend(arrays, clients[c], ms) :
                    /\ arrays' = o.arrays
                    /\ clients' = [clients EXCEPT ![c] = o.slice]
               /\ expected' = [expected EXCEPT ![c] = @ \o ms]
    /\ UNCHANGED <<inputVars, mp, ctxDone, hdrHeap, srcRead, chainVars, ret, data,
                   bytesPayload, requestBody, resp, err, pc, retryVars,
                   transportCalls, streams, result, ruleVars, appendVars, inflight>>

\* A client value is copied (assigned, or passed by value).
ClientCopy ==
    /\ pc = "clients"
    /\ clients # <<>>
    /\ Len(clients) < MaxClients
    /\ \E c \in 1..Len(clients) :
        /\ clients' = Append(clients, clients[c])
        /\ expected' = Append(expected, expected[c])
    /\ UNCHANGED <<inputVars, mp, ctxDone, hdrHeap, srcRead, chainVars, ret, data,
                   bytesPayload, requestBody, resp, err, pc, retryVars,
                   transportCalls, streams, result, ruleVars, appendVars, arrays,
                   inflight>>

InitClients ==
    /\ InitLocals
    /\ InitNoClients
    /\ middlewares = <<>>
    /\ method = "POST"
    /\ url \in Urls
    /\ server = [payload |-> <<>>, header |-> NoHeader]
    /\ callerData = ZeroRequestData
    /\ hdrHeap = <<>>
    /\ data = ZeroRequestData
    /\ call = Nil
    /\ pc = "clients"
    /\ ruleIn = NoRuleInput
    /\ ruleOut = Nil
    /\ mp = NoMultipartStream

NextClients ==
    \/ ClientNew
    \/ ClientAddMiddleware
    \/ ClientCopy

SpecClients == InitClients /\ [][NextClients]_vars

(***************************************************************************)
(* Verb calls running concurrently on one client.                          *)
(***************************************************************************)

\* Variant: the closure runs the interceptor counted from the end of the list.
ReadInterceptorFromEnd(arrs, sl, i) == arrs[sl.arr][sl.len - i + 1]

\* c.middlewares[i], evaluated when the closure of the chain runs.
ReadInterceptor(arrs, sl, i) == arrs[sl.arr][i]

\* A verb is called on the client: the method has a value receiver, so the
\* call works on its own copy of the slice header; the chain is built and
\* its head is about to run.
CallStart ==
    /\ pc = "calls"
    /\ Len(inflight) < MaxCalls
    /\ \E c \in 1..Len(clients) :
        inflight' = Append(inflight,
            [client |-> c, slice |-> clients[c],
             target |-> ComposeChain(SliceList(arrays, clients[c])).head,
             invoked |-> <<>>, ran |-> <<>>, state |-> "run"])
    /\ UNCHANGED <<inputVars, mp, ctxDone, hdrHeap, srcRead, chainVars, ret, data,
                   bytesPayload, requestBody, resp, err, pc, retryVars,
                   transportCalls, streams, result, ruleVars, appendVars, arrays,
                   clients, expected>>

\* A call in progress runs the closure it has reached: the interceptor, which
\* calls next unless it is one that returns at once, or c.makeRequest.
CallStep ==
    /\ pc = "calls"
    /\ \E p \in 1..Len(inflight) :
        /\ inflight[p].state = "run"
        /\ LET f == inflight[p]
               chain == ComposeChain(SliceList(arrays, f.slice))
           IN  IF f.target = 0
               THEN inflight' = [inflight EXCEPT ![p].invoked = Append(@, 0),
                                                 ![p].state = "done"]
               ELSE LET i == chain.links[f.target].mw
                        kind == ReadInterceptor(arrays, f.slice, i)
                    IN  inflight' = [inflight EXCEPT
                            ![p].invoked = Append(@, i),
                            ![p].ran = Append(@, kind),
                            ![p].target = IF kind = "abort" THEN @
                                          ELSE chain.links[f.target].next,
                            ![p].state = IF kind = "abort" THEN "done" ELSE @]
    /\ UNCHANGED <<inputVars, mp, ctxDone, hdrHeap, srcRead, chainVars, ret, data,
                   bytesPayload, requestBody, resp, err, pc, retryVars,
                   transportCalls, streams, result, ruleVars, appendVars, arrays,
                   clients, expected>>

\* One client built by New from a list of the interceptors of the tests.
InitCalls ==
    /\ InitLocals
    /\ middlewares \in MiddlewareLists
    /\ arrays = IF middlewares = <<>> THEN <<>> ELSE <<middlewares>>
    /\ clients = <<IF middlewares = <<>> THEN NilSlice
                   ELSE [arr |-> 1, len |-> Len(middlewares)]>>
    /\ expected = <<middlewares>>
    /\ inflight = <<>>
    /\ method = "POST"
    /\ url \in Urls
    /\ server = [payload |-> <<>>, header |-> NoHeader]
    /\ callerData = ZeroRequestData
    /\ hdrHeap = <<>>
    /\ data = ZeroRequestData
    /\ call = Nil
    /\ pc = "calls"
    /\ ruleIn = NoRuleInput
    /\ ruleOut = Nil
    /\ mp = NoMultipartStream

NextConcurrent ==
    \/ CallStart
    \/ CallStep

SpecCalls == InitCalls /\ [][NextConcurrent]_vars

(***************************************************************************)
(* Specification of a verb call through interceptors that may call next    *)
(* a second time.                                                          *)
(***************************************************************************)
MiddlewareListsAgain ==
    UNION {[1..n -> MiddlewareKinds \cup {"twice"}] : n \in 0..MaxMiddlewares}

\* How many interceptors of a list call next a second time.
AgainCount(mws) == Cardinality({i \in 1..Len(mws) : mws[i] = "twice"})

\* Every list is run with a method the transport is never reached with; the
\* lists with up to MaxAgainWithTransport interceptors that call next again
\* are run against the transport as well.
InitChainAgain ==
    /\ InitLocals
    /\ InitNoClients
    /\ middlewares \in MiddlewareListsAgain
    /\ method \in Methods
    /\ ValidMethod(method) => AgainCount(middlewares) <= MaxAgainWithTransport
    /\ url \in Urls
    /\ server \in Servers
    /\ callerData = DataOf([body |-> BodyJSON(<<"bodyFromRequest">>), headers |-> Nil,
                            maxRetries |-> 0, baseDelay |-> 0, maxDelay |-> 0,
                            rule |-> "nil", stream |-> FALSE])
    /\ hdrHeap = <<>>
    /\ data = ZeroRequestData
    /\ call = Nil
    /\ pc = "idle"
    /\ ruleIn = NoRuleInput
    /\ ruleOut = Nil
    /\ mp = NoMultipartStream

NextChainAgain ==
    \/ CallVerb
    \/ MiddlewareEnter
    \/ ExecutorEnter
    \/ MiddlewareLeave
    \/ MiddlewareNextAgain
    \/ MakeRequestBegin
    \/ RetryAttempt
    \/ MakeRequestEnd
    \/ ReturnToCaller

SpecChainAgain == InitChainAgain /\ [][NextChainAgain]_vars

(***************************************************************************)
(* Specification of one evaluation of DefaultRetryRule.                    *)
(***************************************************************************)
RuleStatuses == 100..599
RuleResponses ==
    {Some([StatusCode |-> st, Header |-> NoHeader, Body |-> 0]) : st \in RuleStatuses}

\* A response with no error, an error with no response, or (a failed
\* redirect) an error together with a response.
RuleInputs ==
    {[resp |-> r, err |-> Nil] : r \in RuleResponses} \cup
    {[resp |-> r, err |-> Some(ErrTransport)] : r \in RuleResponses \cup {Nil}}

EvalDefaultRetryRule ==
    /\ pc = "rule"
    /\ IsNil(ruleOut)
    /\ ruleOut' = Some(DefaultRetryRuleEval(ruleIn.resp, ruleIn.err))
    /\ UNCHANGED <<inputVars, mp, ctxDone, hdrHeap, srcRead, chainVars, ret, data,
                   bytesPayload, requestBody, resp, err, pc, retryVars,
                   transportCalls, streams, result, ruleIn, appendVars,
                   clientVars>>

InitRule ==
    /\ InitLocals
    /\ InitNoClients
    /\ middlewares = <<>>
    /\ method = "POST"
    /\ url \in Urls
    /\ server = [payload |-> <<>>, header |-> NoHeader]
    /\ callerData = ZeroRequestData
    /\ hdrHeap = <<>>
    /\ data = ZeroRequestData
    /\ call = Nil
    /\ pc = "rule"
    /\ ruleIn \in RuleInputs
    /\ ruleOut = Nil
    /\ mp = NoMultipartStream

NextRule == EvalDefaultRetryRule

SpecRule == InitRule /\ [][NextRule]_vars

(***************************************************************************)
(* A multipart stream read by its consumer in chunks.                      *)
(***************************************************************************)

\* Lengths of the buffers the consumer reads into.
ChunkSizes == {1, 2, 10}

\* How often the consumer reads on after a read has returned an error.
MaxErrReads == 2

\* The producer goroutine moves its next bytes into the relay.
ProducerWrite ==
    /\ pc = "mp"
    /\ ~mp.closed
    /\ RelayRoom(mp) > 0
    /\ mp.pos < WriteLimit(mp)
    /\ \E n \in 1..Min(RelayRoom(mp), WriteLimit(mp) - mp.pos) :
        mp' = ProducerWrites(mp, n)
    /\ UNCHANGED <<inputVars, ctxDone, hdrHeap, srcRead, chainVars, ret, data,
                   bytesPayload, requestBody, resp, err, pc, retryVars,
                   transportCalls, streams, result, ruleVars, appendVars,
                   clientVars>>

\* The producer goroutine has written the closing boundary and ends.
ProducerClose ==
    /\ pc = "mp"
    /\ ~mp.closed
    /\ ~mp.fails
    /\ mp.pos = WriteLimit(mp)
    /\ mp' = ProducerCloses(mp)
    /\ UNCHANGED <<inputVars, ctxDone, hdrHeap, srcRead, chainVars, ret, data,
                   bytesPayload, requestBody, resp, err, pc, retryVars,
                   transportCalls, streams, result, ruleVars, appendVars,
                   clientVars>>

\* The producer goroutine gets an error from a field's source and ends.
ProducerFail ==
    /\ pc = "mp"
    /\ ~mp.closed
    /\ mp.fails
    /\ mp.pos = WriteLimit(mp)
    /\ mp' = ProducerFails(mp)
    /\ UNCHANGED <<inputVars, ctxDone, hdrHeap, srcRead, chainVars, ret, data,
                   bytesPayload, requestBody, resp, err, pc, retryVars,
                   transportCalls, streams, result, ruleVars, appendVars,
                   clientVars>>

\* The consumer calls Read; the call returns once a byte is buffered or the
\* producer has closed the relay.
StreamRead ==
    /\ pc = "mp"
    /\ ~mp.eof
    /\ mp.errReads < MaxErrReads
    /\ mp.buf # <<>> \/ mp.closed
    /\ \E n \in ChunkSizes : mp' = StreamReadReturns(mp, n)
    /\ UNCHANGED <<inputVars, ctxDone, hdrHeap, srcRead, chainVars, ret, data,
                   bytesPayload, requestBody, resp, err, pc, retryVars,
                   transportCalls, streams, result, ruleVars, appendVars,
                   clientVars>>

InitMultipart ==
    /\ InitLocals
    /\ InitNoClients
    /\ middlewares = <<>>
    /\ method = "POST"
    /\ url \in Urls
    /\ server = [payload |-> <<>>, header |-> NoHeader]
    /\ callerData = ZeroRequestData
    /\ hdrHeap = <<>>
    /\ data = ZeroRequestData
    /\ call = Nil
    /\ pc = "mp"
    /\ ruleIn = NoRuleInput
    /\ ruleOut = Nil
    /\ \E m \in FieldMaps, b \in Boundaries :
        \E o \in Orders(m) :
            \/ mp = NewMultipartStream(m, o, b)
            \/ \E k \in 1..Len(o) : \E j \in 0..Len(m[o[k]].content) :
                   mp = WithFailingSource(NewMultipartStream(m, o, b), k, j)

NextMultipart ==
    \/ ProducerWrite
    \/ ProducerClose
    \/ ProducerFail
    \/ StreamRead

SpecMultipart == InitMultipart /\ [][NextMultipart]_vars

\* The producer is a goroutine of its own and the consumer keeps reading:
\* each of them takes a step it can take.
SpecMultipartFair ==
    /\ InitMultipart
    /\ [][NextMultipart]_vars
    /\ WF_vars(ProducerWrite)
    /\ WF_vars(ProducerClose)
    /\ WF_vars(ProducerFail)
    /\ WF_vars(StreamRead)

(***************************************************************************)
(* AppendErr applied to one error after the other.                         *)
(***************************************************************************)

\* The errors handed to AppendErr: none, the executor's, an interceptor's,
\* and an aggregate an interceptor has built itself.
NewErrs ==
    { Nil,
      Some(ErrUnexpectedStatus("POST", "http://srv", 400, <<>>)),
      Some(ErrFromMw(1)),
      Some(ErrFromMw(2)),
      Some(MultiErr(<<ErrFromMw(3), ErrAbort>>)) }

\* err = AppendErr(err, e)
AppendErrCall ==
    /\ pc = "append"
    /\ Len(contributed) < MaxContributions
    /\ \E e \in NewErrs :
        /\ aggErr' = AppendErr(aggErr, e)
        /\ contributed' = Append(contributed, e)
    /\ UNCHANGED <<inputVars, mp, ctxDone, hdrHeap, srcRead, chainVars, ret, data,
                   bytesPayload, requestBody, resp, err, pc, retryVars,
                   transportCalls, streams, result, ruleVars, clientVars>>

InitAppend ==
    /\ InitLocals
    /\ InitNoClients
    /\ middlewares = <<>>
    /\ method = "POST"
    /\ url \in Urls
    /\ server = [payload |-> <<>>, header |-> NoHeader]
    /\ callerData = ZeroRequestData
    /\ hdrHeap = <<>>
    /\ data = ZeroRequestData
    /\ call = Nil
    /\ pc = "append"
    /\ ruleIn = NoRuleInput
    /\ ruleOut = Nil
    /\ mp = NoMultipartStream

NextAppend == AppendErrCall

SpecAppend == InitAppend /\ [][NextAppend]_vars

(***************************************************************************)
(* Properties of the retry engine as driven by the executor.               *)
(***************************************************************************)

\* The request is one the attempt can hand to the transport.
WellFormed ==
    /\ ValidMethod(method)
    /\ InvalidHeaderKeys(hdrHeap[data.Headers]) = {}
Regenerable(b) == b.kind \in {"nil", "bytes", "string", "json"}
AllRetry == \A i \in 1..Len(retryAnswers) : retryAnswers[i]

\* C1: with maxAttempts = n >= 1, every attempt answering 'retry' and a
\* context that is not cancelled, Retry has invoked the attempt exactly n
\* times when it returns; with an always-retry rule and a regenerable body of
\* a well-formed request the executor has made exactly n transport calls.
C1_ExactlyNAttempts ==
    (pc = "epilogue" /\ ~ctxDone /\ data.MaxRetries >= 1) =>
        /\ AllRetry => attempts = data.MaxRetries
        /\ (data.RetryRule = "always" /\ WellFormed /\ Regenerable(data.Body)) =>
              /\ attempts = data.MaxRetries
              /\ Len(transportCalls) = data.MaxRetries

C1_Witness ==
    /\ pc = "epilogue" /\ ~ctxDone
    /\ data.RetryRule = "always" /\ data.Body.kind = "bytes"
    /\ data.MaxRetries = MaxAttempts
    /\ attempts = MaxAttempts
    /\ Len(transportCalls) = MaxAttempts

\* C2: the sleep before attempt k (k > 1) lasts min(baseDelay * 2^(k-2),
\* maxDelay); the sleeps never decrease and never exceed maxDelay; exactly
\* one sleep lies between two consecutive attempts, none before the first
\* attempt and none after the last.
C2_BackoffSleeps ==
    /\ \A k \in 1..Len(sleeps) :
          /\ sleeps[k] = Min(data.BaseRetryDelay * Pow2(k - 1), data.MaxRetryDelay)
          /\ sleeps[k] <= data.MaxRetryDelay
    /\ \A k \in 1..(Len(sleeps) - 1) : sleeps[k] <= sleeps[k + 1]
    /\ Len(sleeps) = IF pc = "retry" THEN attempts ELSE Max(attempts - 1, 0)

C2_Witness ==
    /\ pc = "epilogue"
    /\ attempts = 3
    /\ Len(sleeps) = 2
    /\ sleeps[1] = data.BaseRetryDelay
    /\ sleeps[1] < sleeps[2]
    /\ sleeps[2] = data.MaxRetryDelay

\* C3: with maxAttempts <= 1 the attempt runs exactly once whatever it
\* answers and no backoff sleep is performed; an unset MaxRetries (0) is
\* replaced by 1 before Retry is called.
C3_SingleAttempt ==
    /\ (pc # "begin" /\ data.MaxRetries <= 1) =>
          /\ attempts <= 1
          /\ sleeps = <<>>
          /\ pc # "sleep"
          /\ pc = "epilogue" => attempts = 1
    /\ (pc # "begin" /\ callerData.MaxRetries = 0) =>
          /\ data.MaxRetries = 1
          /\ RetryArgs(data).maxAttempts = 1

C3_Witness ==
    /\ pc = "epilogue"
    /\ callerData.MaxRetries = 0
    /\ data.RetryRule = "always"
    /\ retryAnswers = <<TRUE>>
    /\ attempts = 1
    /\ Len(transportCalls) = 1

\* The pair r is the outcome of the latest attempt: its error with the zero
\* Response, or its response with at most an error derived from that response
\* (its status, or a failure to read its body).
PairOfLastAttempt(r) ==
    IF ~IsNil(lastPair.err)
    THEN r.err = lastPair.err /\ r.resp = ZeroResponse
    ELSE /\ r.resp.StatusCode = Val(lastPair.resp).StatusCode
         /\ r.resp.Header = Some(Val(lastPair.resp).Header)
         /\ r.resp.ReadCloser.kind # "nil"
         /\ \/ IsNil(r.err)
            \/ Val(r.err).kind = "transport" /\ Val(r.err) = ErrBodyRead
            \/ /\ Val(r.err).kind = "status"
               /\ Contains(Val(r.err).text,
                           <<ToString(Val(lastPair.resp).StatusCode)>>)

\* C4: once the context is cancelled during a backoff sleep no further
\* attempt is started and the sleep is not completed, and the pair the call
\* then reports is the pair of the last attempt that ran.
C4_CancelDuringSleep ==
    [][ /\ (pc = "sleep" /\ ctxDone) =>
              /\ attempts' = attempts
              /\ sleeps' = sleeps
              /\ pc' \in {"sleep", "epilogue"}
        /\ (sleepCancelled /\ pc = "epilogue" /\ pc' = "return") =>
              PairOfLastAttempt(Val(ret')) ]_vars

C4_Witness ==
    /\ sleepCancelled
    /\ pc = "done"
    /\ attempts = 1
    /\ data.MaxRetries > 1
    /\ Val(result).resp.StatusCode = 502
    /\ ~IsNil(Val(result).err)

\* The number of attempts the answers and maxAttempts allow: the index of
\* the first attempt answering 'do not retry', capped by max(maxAttempts, 1).
AttemptsAllowed ==
    \/ attempts = Max(data.MaxRetries, 1) /\ \A i \in 1..(attempts - 1) : retryAnswers[i]
    \/ /\ attempts < Max(data.MaxRetries, 1)
       /\ \A i \in 1..(attempts - 1) : retryAnswers[i]
       /\ ~retryAnswers[attempts]

\* C5 as stated: whenever Retry returns, the number of attempts is
\* min(j, max(maxAttempts, 1)), j the index of the first 'do not retry'.
C5_Original ==
    pc = "epilogue" => (attempts >= 1 /\ AttemptsAllowed)

\* C5 (amended): Retry invokes the attempt at least once, never starts an
\* attempt after one that answered 'do not retry', never exceeds
\* max(maxAttempts, 1) attempts, and reaches min(j, max(maxAttempts, 1))
\* unless the context cut a backoff sleep short.
C5_AttemptCount ==
    /\ Len(retryAnswers) = attempts
    /\ \A i \in 1..(attempts - 1) : retryAnswers[i]
    /\ pc # "begin" => attempts <= Max(data.MaxRetries, 1)
    /\ pc = "epilogue" =>
          /\ attempts >= 1
          /\ ~sleepCancelled => AttemptsAllowed

C5_Witness ==
    /\ pc = "epilogue"
    /\ sleepCancelled
    /\ attempts = 2
    /\ data.MaxRetries = 3
    /\ retryAnswers = <<TRUE, TRUE>>

(***************************************************************************)
(* Properties of DefaultRetryRule.                                         *)
(***************************************************************************)

\* C6: DefaultRetryRule answers 'retry' exactly when err is non-nil, or the
\* status is 423, 425 or 429, or the status is >= 500 (so not for 200, 400,
\* 404 or 499 with a nil error), and it does not read the response when err
\* is non-nil.
C6_DefaultRetryRule ==
    ~IsNil(ruleOut) =>
        LET o == Val(ruleOut)
            hasErr == ~IsNil(ruleIn.err)
            st == Val(ruleIn.resp).StatusCode
        IN  /\ hasErr => (o.result /\ ~o.readResp)
            /\ ~hasErr => (o.result <=> (st \in {423, 425, 429} \/ st >= 500))
            /\ (~hasErr /\ st \in {200, 400, 404, 499}) => ~o.result

C6_Witness ==
    /\ ~IsNil(ruleOut)
    /\ IsNil(ruleIn.err)
    /\ Val(ruleIn.resp).StatusCode = 425
    /\ Val(ruleOut).result

(***************************************************************************)
(* Properties of the chain of interceptors.                                *)
(***************************************************************************)
CallsNext(kind) == kind \in {"tag", "pass"}
AllCallNext == \A i \in 1..Len(middlewares) : CallsNext(middlewares[i])

\* The log from position a on is a run of returns through interceptors
\* hi, hi-1, ..., 1, each receiving the pair its predecessor in the log
\* returned, and p is the pair the last of them returned.
ReturnsThrough(a, hi, p) ==
    /\ Len(events) = a + hi - 1
    /\ \A j \in 1..hi :
          /\ events[a + j - 1].who = hi + 1 - j
          /\ events[a + j - 1].phase = "after"
          /\ events[a + j - 1].pairIn = events[a + j - 2].pairOut
    /\ p = events[Len(events)].pairOut

\* The log starts with interceptors 1..hi entered in order, the first with
\* the caller's data and each next one with the data its predecessor passed.
EntersThrough(hi) ==
    /\ Len(events) >= hi
    /\ \A i \in 1..hi :
          /\ events[i].who = i
          /\ events[i].phase = "before"
          /\ events[i].dataIn =
                (IF i = 1 THEN Some(callerData) ELSE events[i - 1].dataOut)

\* C7: when every interceptor calls next exactly once, a call runs
\* m0(before), ..., mk(before), the executor, mk(after), ..., m0(after);
\* each link receives the request data its predecessor passed to next and
\* the (response, error) its successor returned.
C7_ChainOrder ==
    (pc = "done" /\ AllCallNext) =>
        LET k == Len(middlewares)
        IN  /\ EntersThrough(k)
            /\ Len(events) = 2 * k + 2
            /\ events[k + 1].who = 0 /\ events[k + 1].phase = "run"
            /\ events[k + 1].dataIn =
                  (IF k = 0 THEN Some(callerData) ELSE events[k].dataOut)
            /\ events[k + 2].who = 0 /\ events[k + 2].phase = "return"
            /\ ReturnsThrough(k + 3, k, result)

C7_Witness ==
    /\ pc = "done"
    /\ middlewares = <<"tag", "tag">>
    /\ Len(transportCalls) = 1
    /\ transportCalls[1].body =
          JSONMarshal(<<"bodyFromRequest", "firstMiddleware", "secondMiddleware">>)
    /\ Val(result).resp.StatusCode = 400
    /\ Val(Val(result).err).kind = "multierr"
    /\ Len(Val(Val(result).err).errs) = 3

\* The first interceptor that returns without calling next, 0 if none.
FirstAbort ==
    IF AllCallNext THEN 0
    ELSE CHOOSE i \in 1..Len(middlewares) :
            /\ ~CallsNext(middlewares[i])
            /\ \A j \in 1..(i - 1) : CallsNext(middlewares[j])

\* C8: if interceptor i returns without calling next, no interceptor after
\* it runs, the executor does not run, no transport call is made, and the
\* caller receives the pair interceptor i returned as transformed by the
\* interceptors before it on the way out.
C8_ShortCircuit ==
    FirstAbort # 0 =>
        /\ \A e \in 1..Len(events) :
              events[e].who # 0 /\ events[e].who <= FirstAbort
        /\ transportCalls = <<>>
        /\ attempts = 0
        /\ pc \in {"idle", "chain", "return", "done"}
        /\ pc = "done" =>
              /\ EntersThrough(FirstAbort - 1)
              /\ events[FirstAbort].who = FirstAbort
              /\ events[FirstAbort].phase = "abort"
              /\ events[FirstAbort].pairOut =
                    Some([resp |-> ZeroResponse, err |-> Some(ErrAbort)])
              /\ IF FirstAbort = 1 THEN result = events[1].pairOut /\ Len(events) = 1
                 ELSE ReturnsThrough(FirstAbort + 1, FirstAbort - 1, result)

C8_Witness ==
    /\ pc = "done"
    /\ middlewares = <<"tag", "abort">>
    /\ Len(events) = 3
    /\ Val(result).err = Some(MultiErr(<<ErrAbort, ErrFromMw(1)>>))
    /\ transportCalls = <<>>

(***************************************************************************)
(* Properties of the result of the executor.                               *)
(***************************************************************************)

\* The final attempt obtained a response from the transport.
GotResponse == ~IsNil(lastPair.resp) /\ IsNil(lastPair.err)

\* The bytes a stream handle yields when it is read to its end.
HandleYields(h) ==
    CASE h.kind = "buffer" -> h.bytes
      [] h.kind = "transport" ->
            SubSeq(streams[h.id].payload, streams[h.id].read + 1,
                   Len(streams[h.id].payload))
      [] OTHER -> <<>>

\* C9: when the final attempt obtained a response and its body was read
\* without error, the error is nil exactly for a status in [200, 299]; for
\* any other status the error text contains the method, the url, the status
\* code and the payload, and the Response carries the server's status and,
\* as Body, the server's bytes.
C9_StatusClassification ==
    (pc = "done" /\ GotResponse /\ Val(result).err # Some(ErrBodyRead)) =>
        LET r == Val(result)
            st == Val(lastPair.resp).StatusCode
        IN  /\ IsNil(r.err) <=> (st >= 200 /\ st <= 299)
            /\ r.resp.StatusCode = st
            /\ ~IsNil(r.err) =>
                  /\ Contains(Val(r.err).text, <<method>>)
                  /\ Contains(Val(r.err).text, <<url>>)
                  /\ Contains(Val(r.err).text, <<ToString(st)>>)
                  /\ Contains(Val(r.err).text, server.payload)
                  /\ r.resp.Body = Some(server.payload)

C9_Witness ==
    /\ pc = "done"
    /\ GotResponse
    /\ Val(result).resp.StatusCode = 400
    /\ server.payload = <<"h", "i">>
    /\ Val(result).resp.Body = Some(<<"h", "i">>)
    /\ Val(result).err = Some(ErrUnexpectedStatus("POST", "http://srv", 400, <<"h", "i">>))

\* The Response of a call that ended without a response of the transport.
ZeroOnFailure ==
    (pc = "done" /\ ~GotResponse) => Val(result).resp = ZeroResponse

\* C10 as stated: when the final attempt got a response, StatusCode and
\* Header are that response's and the stream handle is non-nil and yields
\* the payload; otherwise the Response is the zero value.
C10_Original ==
    /\ ZeroOnFailure
    /\ (pc = "done" /\ GotResponse) =>
          /\ Val(result).resp.StatusCode = Val(lastPair.resp).StatusCode
          /\ Val(result).resp.Header = Some(Val(lastPair.resp).Header)
          /\ Val(result).resp.ReadCloser.kind # "nil"
          /\ HandleYields(Val(result).resp.ReadCloser) = server.payload

\* C10 (amended): as stated, except that when reading the response body
\* failed the stream handle yields the bytes read before the failure (the
\* bytes of Body), a prefix of the payload.
C10_SafeResponse ==
    /\ ZeroOnFailure
    /\ (pc = "done" /\ GotResponse) =>
          LET r == Val(result)
              got == HandleYields(r.resp.ReadCloser)
          IN  /\ r.resp.StatusCode = Val(lastPair.resp).StatusCode
              /\ r.resp.Header = Some(Val(lastPair.resp).Header)
              /\ r.resp.ReadCloser.kind # "nil"
              /\ r.err # Some(ErrBodyRead) => got = server.payload
              /\ r.err = Some(ErrBodyRead) =>
                    /\ r.resp.Body = Some(got)
                    /\ got = SubSeq(server.payload, 1, Len(got))

C10_Witness ==
    /\ pc = "done"
    /\ GotResponse
    /\ Val(result).err = Some(ErrBodyRead)
    /\ Val(result).resp.StatusCode = 502
    /\ server.payload = <<"h", "i">>
    /\ HandleYields(Val(result).resp.ReadCloser) = <<"h">>

(***************************************************************************)
(* Properties of the request body.                                         *)
(***************************************************************************)

\* The bytes a body of a regenerable kind stands for.
CanonicalBytes(b) ==
    CASE b.kind \in {"bytes", "string"} -> b.val
      [] b.kind = "json" -> JSONMarshal(b.val)
      [] OTHER -> <<>>

\* C11: for a []byte, string or JSON-marshalled body, the body the transport
\* receives on every attempt is the canonical bytes of the body, whatever
\* the number of attempts; and with the default rule and MaxRetries = 2 a
\* first answer that is retried followed by a 200 ends with status 200 and a
\* nil error.
C11_BodyRegenerated ==
    /\ callerData.Body.kind \in {"bytes", "string", "json"} =>
          \A k \in 1..Len(transportCalls) :
              transportCalls[k].body = CanonicalBytes(callerData.Body)
    /\ (/\ pc = "done"
        /\ callerData.RetryRule = "nil"
        /\ callerData.MaxRetries = 2
        /\ retryAnswers = <<TRUE, FALSE>>
        /\ GotResponse
        /\ Val(lastPair.resp).StatusCode = 200
        /\ Val(result).err # Some(ErrBodyRead)) =>
          /\ Val(result).resp.StatusCode = 200
          /\ IsNil(Val(result).err)

\* A JSON body sent twice, the first answer being a 502, the second a 200.
C11_Witness ==
    /\ pc = "done"
    /\ callerData.Body = BodyJSON(<<"bodyFromRequest">>)
    /\ callerData.RetryRule = "nil"
    /\ callerData.MaxRetries = 2
    /\ Len(transportCalls) = 2
    /\ Len(streams) = 2
    /\ transportCalls[2].body = JSONMarshal(<<"bodyFromRequest">>)
    /\ Val(result).resp.StatusCode = 200
    /\ IsNil(Val(result).err)

\* The body is one that can be read only once.
SingleUseBody == callerData.Body.kind \in {"reader", "multipart"}

\* What makeRequest returned, if it has returned.
Returned == IF pc = "done" THEN result ELSE ret

\* C12: with an io.Reader or a multipart field map as body and
\* MaxRetries > 1, makeRequest returns a configuration error and the zero
\* Response without running an attempt, calling the transport, creating the
\* multipart stream or reading a byte of the body; with MaxRetries <= 1 the
\* body is accepted: the attempt runs and, for a well-formed request, the
\* transport is called once.
C12_SingleUseBody ==
    /\ (pc # "begin" /\ SingleUseBody /\ data.MaxRetries > 1) =>
          /\ ~IsNil(Returned)
          /\ Val(Returned).resp = ZeroResponse
          /\ Val(Returned).err \in {Some(ErrReaderBody), Some(ErrMultipartBody)}
          /\ Val(Val(Returned).err).kind = "config"
          /\ attempts = 0
          /\ transportCalls = <<>>
          /\ ~mp.started
          /\ mp.pos = 0
          /\ srcRead = 0
    /\ (pc \in {"epilogue", "return", "done"} /\ SingleUseBody
            /\ data.MaxRetries <= 1) =>
          /\ attempts = 1
          /\ ~IsNil(Returned) =>
                Val(Returned).err \notin {Some(ErrReaderBody), Some(ErrMultipartBody)}
          /\ WellFormed => Len(transportCalls) = 1
          /\ (WellFormed /\ callerData.Body.kind = "multipart") =>
                mp.started /\ mp.eof

C12_Witness ==
    /\ pc = "done"
    /\ callerData.Body.kind = "multipart"
    /\ callerData.MaxRetries = 2
    /\ result = Some([resp |-> ZeroResponse, err |-> Some(ErrMultipartBody)])
    /\ ~mp.started
    /\ transportCalls = <<>>

\* C13: with a single attempt, the body the transport observes for a []byte,
\* a string or an io.Reader body is the original content, every byte once
\* and in order (the reader is read from its start to its end, one time);
\* for a nil body the transport observes an empty body.
C13_BodyRoundTrip ==
    (pc # "begin" /\ data.MaxRetries = 1
        /\ callerData.Body.kind \in {"nil", "bytes", "string", "reader"}) =>
        /\ Len(transportCalls) <= 1
        /\ \A k \in 1..Len(transportCalls) :
              /\ transportCalls[k].body = callerData.Body.val
              /\ callerData.Body.kind = "nil" => transportCalls[k].body = <<>>
        /\ callerData.Body.kind = "reader" =>
              srcRead = IF transportCalls = <<>> THEN 0 ELSE Len(callerData.Body.val)
        /\ (WellFormed /\ pc = "done") => Len(transportCalls) = 1

C13_Witness ==
    /\ pc = "done"
    /\ callerData.Body = BodyReader(<<"a", "b">>)
    /\ data.MaxRetries = 1
    /\ Len(transportCalls) = 1
    /\ transportCalls[1].body = <<"a", "b">>
    /\ srcRead = 2

(***************************************************************************)
(* Properties of the headers and of the errors that are not retried.       *)
(***************************************************************************)

\* The keys of the caller's header map whose value is neither a string nor
\* a []string.
OffendingKeys ==
    IF callerData.Headers = 0 THEN {}
    ELSE {k \in DOMAIN hdrHeap[callerData.Headers] :
            hdrHeap[callerData.Headers][k].kind = "other"}
AllHeadersValid == OffendingKeys = {}

\* No other key of the map m is written under the header name of key k.
SoleKey(m, k) ==
    \A k2 \in DOMAIN m \ {k} : HeaderKeyOf(k2, m[k2]) # HeaderKeyOf(k, m[k])

C14_WitnessList ==
    /\ Len(transportCalls) = 1
    /\ "x-multi" \in DOMAIN transportCalls[1].header
    /\ transportCalls[1].header["x-multi"] = <<"v1", "v2">>
    /\ transportCalls[1].header["Accept"] = <<"application/json">>

\* The call is bound to fail for a reason that no later attempt can change:
\* a header of invalid shape, a body that cannot be marshalled, or a request
\* that cannot be built.
CannotSucceed ==
    \/ ~AllHeadersValid
    \/ callerData.Body.kind = "unmarshalable"
    \/ ~ValidMethod(method)

\* C15 as stated: a call failing with a configuration or encoding error
\* runs the attempt at most once, performs no backoff sleep and makes no
\* transport call, whatever MaxRetries and the retry rule.
C15_NeverRetried ==
    CannotSucceed =>
        /\ attempts <= 1
        /\ sleeps = <<>>
        /\ ~sleepCancelled
        /\ transportCalls = <<>>

\* The part of C15 that holds: no transport call is made, and a header of
\* invalid shape or a marshal failure ends the call after at most one attempt
\* and without a sleep.
C15_ExceptNewRequest ==
    /\ CannotSucceed => transportCalls = <<>>
    /\ (CannotSucceed /\ ValidMethod(method)) =>
          attempts <= 1 /\ sleeps = <<>> /\ ~sleepCancelled

\* A request with an invalid method was attempted MaxAttempts times.
C15_RetriedNewRequest ==
    /\ pc = "done"
    /\ ~ValidMethod(method)
    /\ attempts = MaxAttempts
    /\ Len(sleeps) = MaxAttempts - 1
    /\ Val(result).err = Some(ErrNewRequest)

(***************************************************************************)
(* Properties of the body and the stream handle of the Response.           *)
(***************************************************************************)

\* The stream of the response the final attempt obtained.
FinalStream == streams[Val(lastPair.resp).Body]
StreamedResult ==
    data.Stream /\ isStatusSuccess(Val(lastPair.resp).StatusCode)

\* C16 as stated: with Stream set and a final status in [200, 299] the Body
\* is nil and the handle is the transport's stream, unread and unclosed;
\* otherwise the whole payload is in Body, the transport's stream has been
\* closed exactly once and the handle is not the transport's stream.
C16_Original ==
    (pc = "done" /\ GotResponse) =>
        LET r == Val(result).resp
        IN  IF StreamedResult
            THEN /\ IsNil(r.Body)
                 /\ r.ReadCloser = TransportHandle(Val(lastPair.resp).Body)
                 /\ FinalStream.read = 0
                 /\ FinalStream.closes = 0
            ELSE /\ r.Body = Some(server.payload)
                 /\ FinalStream.closes = 1
                 /\ r.ReadCloser.kind = "buffer"

\* C16 (amended): as stated, except that Body holds the whole payload only
\* when reading it met no error; when the read fails Body holds the bytes
\* read before the failure, and the stream is closed exactly once all the
\* same.
C16_StreamOrBuffer ==
    (pc = "done" /\ GotResponse) =>
        LET r == Val(result).resp
        IN  IF StreamedResult
            THEN /\ IsNil(r.Body)
                 /\ r.ReadCloser = TransportHandle(Val(lastPair.resp).Body)
                 /\ FinalStream.read = 0
                 /\ FinalStream.closes = 0
                 /\ ~FinalStream.closed
            ELSE /\ ~IsNil(r.Body)
                 /\ Val(result).err # Some(ErrBodyRead) =>
                        r.Body = Some(server.payload)
                 /\ Val(result).err = Some(ErrBodyRead) =>
                        r.Body = Some(SubSeq(server.payload, 1, FinalStream.read))
                 /\ FinalStream.closes = 1
                 /\ FinalStream.closed
                 /\ r.ReadCloser.kind = "buffer"

\* Stream is set and the server answered 400: the payload is in Body.
C16_Witness ==
    /\ pc = "done"
    /\ GotResponse
    /\ data.Stream
    /\ Val(result).resp.StatusCode = 400
    /\ server.payload = <<"h", "i">>
    /\ Val(result).resp.Body = Some(<<"h", "i">>)
    /\ FinalStream.closes = 1

\* Stream is set and the server answered 200: the stream is handed over.
C16_WitnessStreamed ==
    /\ pc = "done"
    /\ GotResponse
    /\ StreamedResult
    /\ Val(result).resp.ReadCloser.kind = "transport"
    /\ server.payload = <<"h", "i">>
    /\ HandleYields(Val(result).resp.ReadCloser) = <<"h", "i">>

\* C17 as stated: a Response never carries both a buffered Body and a
\* readable stream handle.
C17_Original ==
    pc = "done" =>
        ~(~IsNil(Val(result).resp.Body) /\ Val(result).resp.ReadCloser.kind # "nil")

\* C17 (amended): a Response never carries both a buffered Body and the
\* transport's response stream; a Response with a buffered Body carries as
\* handle an in-memory reader over the bytes of Body, and a Response whose
\* handle is the transport's stream has a nil Body.
C17_BodyOrStream ==
    pc = "done" =>
        LET r == Val(result).resp
        IN  /\ ~(~IsNil(r.Body) /\ r.ReadCloser.kind = "transport")
            /\ ~IsNil(r.Body) => r.ReadCloser = BufferHandle(Val(r.Body))
            /\ r.ReadCloser.kind = "transport" => IsNil(r.Body)
            /\ r.ReadCloser.kind = "nil" => r = ZeroResponse

C17_Witness ==
    /\ pc = "done"
    /\ ~data.Stream
    /\ Val(result).resp.StatusCode = 200
    /\ Val(result).resp.Body = Some(<<"h", "i">>)
    /\ Val(result).resp.ReadCloser = BufferHandle(<<"h", "i">>)
    /\ HandleYields(Val(result).resp.ReadCloser) = <<"h", "i">>

(***************************************************************************)
(* Properties of the multipart stream.                                     *)
(***************************************************************************)

\* How often a byte, and a run of bytes, occurs in a byte string.
CountByte(s, t) == Cardinality({i \in 1..Len(s) : s[i] = t})
CountRun(s, r) ==
    Cardinality({i \in 1..(Len(s) - Len(r) + 1) : SubSeq(s, i, i + Len(r) - 1) = r})

\* C18: whatever the sizes of the reads, the bytes returned so far followed
\* by the bytes waiting in the relay are the bytes the producer has written,
\* and at end-of-stream the bytes returned are the encoding of the field map,
\* which does not depend on the reads: no byte is duplicated or dropped.
C18_ChunkIndependent ==
    mp.started =>
        /\ mp.out \o mp.buf = SubSeq(StreamBytes(mp), 1, mp.pos)
        /\ mp.eof => mp.out = EncodeFields(mp.order, mp.fields, mp.boundary)

\* Two fields read one byte at a time up to end-of-stream: the three bytes
\* of item1 span three reads.
C18_Witness ==
    /\ pc = "mp"
    /\ mp.eof
    /\ DOMAIN mp.fields = {"item1", "item2"}
    /\ mp.nreads = Len(StreamBytes(mp)) + 1
    /\ CountRun(mp.out, <<"x1", "x2", "x3">>) = 1

\* The part of field name in an encoded byte string: from its opening
\* delimiter up to the next delimiter.
NameAt(s, name) ==
    CHOOSE i \in 1..Len(s) : s[i] = name /\ i > 4 /\ s[i - 1] = DispositionPrefix
NextBoundary(s, i, b) == CHOOSE j \in (i + 1)..Len(s) :
    s[j] = b /\ \A k \in (i + 1)..(j - 1) : s[k] # b
PartOf(s, name, b) ==
    SubSeq(s, NameAt(s, name) - 4, NextBoundary(s, NameAt(s, name), b) - 2)

\* C19: at end-of-stream the bytes returned for n fields hold the boundary
\* n + 1 times; every field has one part that opens with the delimiter,
\* names the field once (and its filename once if it is a file, none
\* otherwise) and ends with its payload, which occurs once; the bytes end
\* with the closing boundary, and end-of-stream is signalled only after the
\* closing boundary has been returned.
C19_PartStructure ==
    (pc = "mp" /\ mp.eof) =>
        LET s == mp.out
            b == mp.boundary
            n == Cardinality(DOMAIN mp.fields)
        IN  /\ CountByte(s, b) = n + 1
            /\ Len(s) >= 4
            /\ SubSeq(s, Len(s) - 3, Len(s)) = <<Dashes, b, Dashes, CRLF>>
            /\ CountRun(s, <<Dashes, b, CRLF>>) = n
            /\ \A name \in DOMAIN mp.fields :
                  LET f == mp.fields[name]
                      p == PartOf(s, name, b)
                  IN  /\ CountRun(s, <<DispositionPrefix, name, Quote>>) = 1
                      /\ CountByte(s, name) = 1
                      /\ SubSeq(p, 1, 6) =
                            <<Dashes, b, CRLF, DispositionPrefix, name, Quote>>
                      /\ CountRun(p, <<FilenamePrefix, f.filename, Quote>>) =
                            IF f.kind = "file" THEN 1 ELSE 0
                      /\ CountByte(p, FilenamePrefix) =
                            IF f.kind = "file" THEN 1 ELSE 0
                      /\ CountRun(s, f.content) = 1
                      /\ SubSeq(p, Len(p) - Len(f.content) - 1, Len(p)) =
                            <<CRLF>> \o f.content \o <<CRLF>>

C19_Witness ==
    /\ pc = "mp"
    /\ mp.eof
    /\ Cardinality(DOMAIN mp.fields) = 2
    /\ mp.fields["item2"].kind = "file"
    /\ CountByte(mp.out, mp.boundary) = 3
    /\ CountRun(mp.out, <<FilenamePrefix, "fake-filename", Quote>>) = 1

\* The Content-Type lines of the part of field name.
ContentTypeLines(s, name, b) == CountByte(PartOf(s, name, b), ContentTypePrefix)

\* C20 as stated: a part has a Content-Type line only when its source
\* declares a content type, and then one line with that type; a plain
\* reader and a file without a declared type have none.
C20_Original ==
    (pc = "mp" /\ mp.eof) =>
        \A name \in DOMAIN mp.fields :
            LET f == mp.fields[name]
                p == PartOf(mp.out, name, mp.boundary)
            IN  IF f.kind = "item"
                THEN /\ CountByte(p, ContentTypePrefix) = 1
                     /\ CountRun(p, <<ContentTypePrefix, f.contentType, CRLF>>) = 1
                ELSE CountByte(p, ContentTypePrefix) = 0

\* C20 (amended): the part of a MultipartItem has exactly one Content-Type
\* line, with the declared type; the part of a MultipartFile has exactly one
\* Content-Type line, 'application/octet-stream'; the part of a plain reader
\* has none.
C20_ContentTypeLine ==
    (pc = "mp" /\ mp.eof) =>
        \A name \in DOMAIN mp.fields :
            LET f == mp.fields[name]
                p == PartOf(mp.out, name, mp.boundary)
            IN  CASE f.kind = "item" ->
                      /\ CountByte(p, ContentTypePrefix) = 1
                      /\ CountRun(p, <<ContentTypePrefix, f.contentType, CRLF>>) = 1
                  [] f.kind = "file" ->
                      /\ CountByte(p, ContentTypePrefix) = 1
                      /\ CountRun(p, <<ContentTypePrefix, "application/octet-stream",
                                       CRLF>>) = 1
                  [] OTHER -> CountByte(p, ContentTypePrefix) = 0

\* A plain reader and a file: one Content-Type line in all, the file's.
C20_Witness ==
    /\ pc = "mp"
    /\ mp.eof
    /\ mp.fields = TwoFields
    /\ CountByte(mp.out, ContentTypePrefix) = 1
    /\ ContentTypeLines(mp.out, "item1", mp.boundary) = 0
    /\ ContentTypeLines(mp.out, "item2", mp.boundary) = 1
    /\ CountRun(mp.out, <<ContentTypePrefix, "application/octet-stream", CRLF>>) = 1

(***************************************************************************)
(* The server's side: multipart.NewReader(r.Body, boundary) and NextPart.  *)
(***************************************************************************)

\* The positions of the boundary in a byte string, and the k-th of them.
BoundaryAt(s, b) == {i \in 2..Len(s) : s[i] = b /\ s[i - 1] = Dashes}
KthBoundary(s, b, k) ==
    CHOOSE i \in BoundaryAt(s, b) : Cardinality({j \in BoundaryAt(s, b) : j < i}) = k - 1

\* The k-th part: what lies between the k-th delimiter line and the next
\* delimiter.
RawPart(s, b, k) ==
    SubSeq(s, KthBoundary(s, b, k) + 2, KthBoundary(s, b, k + 1) - 2)

\* The end of the header block of a part: the line end followed by the
\* empty line.
HeaderEnd(p) == CHOOSE h \in 1..(Len(p) - 1) :
    /\ p[h] = CRLF /\ p[h + 1] = CRLF
    /\ \A g \in 1..(h - 1) : ~(p[g] = CRLF /\ p[g + 1] = CRLF)

\* The value that follows a prefix in the header block, "" if there is none.
HeaderValue(p, prefix) ==
    IF \E i \in 1..HeaderEnd(p) : p[i] = prefix
    THEN p[(CHOOSE i \in 1..HeaderEnd(p) : p[i] = prefix) + 1]
    ELSE ""

\* What NextPart and io.ReadAll yield for the k-th part.
ParsedPart(s, b, k) ==
    LET p == RawPart(s, b, k)
    IN  [FormName |-> HeaderValue(p, DispositionPrefix),
         FileName |-> HeaderValue(p, FilenamePrefix),
         ContentType |-> HeaderValue(p, ContentTypePrefix),
         Body |-> SubSeq(p, HeaderEnd(p) + 2, Len(p) - 1)]
ParsedParts(s, b) ==
    [k \in 1..(Cardinality(BoundaryAt(s, b)) - 1) |-> ParsedPart(s, b, k)]

\* C21: the part of a MultipartFile carries its filename in the disposition
\* header and exactly one Content-Type line, 'application/octet-stream'; the
\* server's parse of the body yields one part per field, in the order of the
\* encode, each with the name, the filename (none unless it is a file), the
\* content type (the declared one for an item, application/octet-stream for
\* a file, none for a plain reader) and the payload of its field.
C21_FilePart ==
    (pc = "mp" /\ mp.eof) =>
        LET parts == ParsedParts(mp.out, mp.boundary)
        IN  /\ Len(parts) = Len(mp.order)
            /\ \A k \in 1..Len(parts) :
                  LET f == mp.fields[mp.order[k]]
                      p == PartOf(mp.out, mp.order[k], mp.boundary)
                  IN  /\ parts[k].FormName = mp.order[k]
                      /\ parts[k].Body = f.content
                      /\ parts[k].FileName = f.filename
                      /\ f.kind = "item" => parts[k].ContentType = f.contentType
                      /\ f.kind = "plain" => parts[k].ContentType = ""
                      /\ f.kind = "file" =>
                            /\ parts[k].ContentType = "application/octet-stream"
                            /\ parts[k].FileName # ""
                            /\ CountRun(p, <<DispositionPrefix, mp.order[k], Quote,
                                             FilenamePrefix, f.filename, Quote, CRLF>>) = 1
                            /\ CountByte(p, ContentTypePrefix) = 1
                            /\ CountRun(p, <<CRLF, ContentTypePrefix,
                                             "application/octet-stream", CRLF>>) = 1

\* Two files, read to the end and parsed.
C21_Witness ==
    /\ pc = "mp"
    /\ mp.eof
    /\ Len(mp.order) = 2
    /\ \A k \in 1..2 : mp.fields[mp.order[k]].kind = "file"
    /\ ParsedPart(mp.out, mp.boundary, 2).FileName = "fake-filename"
    /\ ParsedPart(mp.out, mp.boundary, 2).ContentType = "application/octet-stream"
    /\ ParsedPart(mp.out, mp.boundary, 2).Body = mp.fields[mp.order[2]].content

\* C22 as stated: every request with a multipart body reaches the transport
\* with, as Content-Type, the single value 'multipart/form-data; boundary='
\* followed by the boundary of the encoded body, whatever the caller's
\* header map holds.
C22_MultipartContentType ==
    \A c \in 1..Len(transportCalls) :
        transportCalls[c].kind = "multipart" =>
            /\ "Content-Type" \in DOMAIN transportCalls[c].header
            /\ transportCalls[c].header["Content-Type"] =
                  <<"multipart/form-data; boundary=" \o mp.boundary>>
            /\ CountByte(transportCalls[c].body, mp.boundary) =
                  Cardinality(DOMAIN mp.fields) + 1

\* The keys of the caller's header map, other than "Content-Type" itself,
\* that Header.Set writes under "Content-Type".
ContentTypeAliases ==
    IF callerData.Headers = 0 THEN {}
    ELSE {k \in DOMAIN hdrHeap[callerData.Headers] :
            /\ k # "Content-Type"
            /\ hdrHeap[callerData.Headers][k].kind = "string"
            /\ CanonicalKey(k) = "Content-Type"}

\* The part of C22 that holds: the header is the multipart content type
\* when the caller's map has no string entry under another spelling of
\* Content-Type.
C22_WithoutAlias ==
    ContentTypeAliases = {} => C22_MultipartContentType

\* The caller's "content-type" entry has replaced the multipart content type.
C22_Overridden ==
    /\ Len(transportCalls) = 1
    /\ transportCalls[1].kind = "multipart"
    /\ ContentTypeAliases = {"content-type"}
    /\ transportCalls[1].header["Content-Type"] = <<"text/plain">>

\* The order in which the caller wrote the fields of the map m.
DeclaredOrder(m) == [i \in 1..Cardinality(DOMAIN m) |-> FieldName(i)]

DefaultsApplied ==
    pc # "begin" =>
        /\ data.MaxRetries = IF callerData.MaxRetries = 0 THEN 1
                             ELSE callerData.MaxRetries
        /\ data.BaseRetryDelay = IF callerData.BaseRetryDelay = 0 THEN 300
                                 ELSE callerData.BaseRetryDelay
        /\ data.MaxRetryDelay = IF callerData.MaxRetryDelay = 0 THEN 32000
                                ELSE callerData.MaxRetryDelay
        /\ data.RetryRule = IF callerData.RetryRule = "nil" THEN "DefaultRetryRule"
                            ELSE callerData.RetryRule
        /\ IF callerData.Headers = 0
           THEN /\ data.Headers # 0
                /\ data.Headers \in 1..Len(hdrHeap)
                /\ DOMAIN hdrHeap[data.Headers] \subseteq {"Content-Type"}
                /\ callerData.Body.kind # "multipart" =>
                      hdrHeap[data.Headers] = EmptyMap
           ELSE data.Headers = callerData.Headers
        /\ data.Body = callerData.Body
        /\ data.Stream = callerData.Stream
        /\ SetDefaultsIfNecessary(data, hdrHeap) = [data |-> data, heap |-> hdrHeap]

\* C24: SetDefaultsIfNecessary gives MaxRetries, BaseRetryDelay,
\* MaxRetryDelay, RetryRule and Headers their defaults (1, 300ms, 32s,
\* DefaultRetryRule, an empty map) exactly where they are unset, leaves the
\* other fields as they are, and changes nothing when applied again; the
\* value the caller holds never changes.
C24_SetDefaults ==
    /\ []DefaultsApplied
    /\ [][callerData' = callerData]_vars

\* All five fields were unset and are still unset for the caller.
C24_Witness ==
    /\ pc = "done"
    /\ callerData.MaxRetries = 0 /\ data.MaxRetries = 1
    /\ callerData.BaseRetryDelay = 0 /\ data.BaseRetryDelay = 300
    /\ callerData.MaxRetryDelay = 0 /\ data.MaxRetryDelay = 32000
    /\ callerData.RetryRule = "nil" /\ data.RetryRule = "DefaultRetryRule"
    /\ callerData.Headers = 0 /\ data.Headers = 1
    /\ hdrHeap[1] = EmptyMap

(***************************************************************************)
(* Properties of AppendErr.                                                *)
(***************************************************************************)

\* The errors contributed so far that are not nil, in order.
Contributions ==
    LET sel == SelectSeq(contributed, LAMBDA e : ~IsNil(e))
    IN  [i \in 1..Len(sel) |-> Val(sel[i])]
IsAggregate(e) == e.kind = "multierr"
PlainContributions == \A i \in 1..Len(Contributions) : ~IsAggregate(Contributions[i])

\* The accumulated error has no element that is itself an aggregate.
FlatErr(e) ==
    IsNil(e) \/ ~IsAggregate(Val(e)) \/
        \A i \in 1..Len(Val(e).errs) : ~IsAggregate(Val(e).errs[i])

\* C25 as stated: after any sequence of AppendErr calls no element of the
\* aggregate is itself an aggregate.
C25_Original == FlatErr(aggErr)

\* C25 (amended): AppendErr(nil, e) = e and AppendErr(e, nil) = e; when the
\* errors contributed are not aggregates the accumulated error is nil for no
\* error, the error itself for one, and for more one flat aggregate of all of
\* them in the order of contribution; an aggregate handed over as the new
\* error is not flattened: it becomes one element of the result, unless it
\* is the first error, whose elements are then the first elements.
C25_FlatAggregate ==
    /\ \A e \in NewErrs : AppendErr(Nil, e) = e /\ AppendErr(e, Nil) = e
    /\ \A e1, e2 \in NewErrs :
          (~IsNil(e1) /\ ~IsNil(e2) /\ ~IsAggregate(Val(e1))) =>
              AppendErr(e1, e2) = Some(MultiErr(<<Val(e1), Val(e2)>>))
    /\ LET c == Contributions
           first == IF IsAggregate(c[1]) THEN c[1].errs ELSE <<c[1]>>
       IN  CASE Len(c) = 0 -> aggErr = Nil
             [] Len(c) = 1 -> aggErr = Some(c[1])
             [] OTHER -> aggErr = Some(MultiErr(first \o Tail(c)))
    /\ PlainContributions =>
          /\ FlatErr(aggErr)
          /\ Len(Contributions) >= 2 => aggErr = Some(MultiErr(Contributions))

\* The executor's error, then the errors of two interceptors.
C25_Witness ==
    /\ pc = "append"
    /\ contributed = <<Some(ErrUnexpectedStatus("POST", "http://srv", 400, <<>>)),
                       Some(ErrFromMw(2)), Nil, Some(ErrFromMw(1))>>
    /\ aggErr = Some(MultiErr(<<ErrUnexpectedStatus("POST", "http://srv", 400, <<>>),
                                ErrFromMw(2), ErrFromMw(1)>>))

\* ---------------------------------------------------------------------
\* C26: the deadline of a call

\* The sum of the backoff sleeps that ran to their end.
RECURSIVE SumSeq(_)
SumSeq(q) == IF q = <<>> THEN 0 ELSE Head(q) + SumSeq(Tail(q))

\* C26: all attempts of one call share the single deadline configured at
\* client construction: from the start of the first attempt to the return
\* of the call no more than the client's timeout passes.
C26_SharedDeadline ==
    pc = "done" => elapsed <= ClientTimeout

\* What the code enforces instead: each call of httpClient.Do is bounded by
\* the client's timeout on its own, and the backoff sleeps are bounded by
\* nothing but the context.
C26_PerAttemptTimeout ==
    elapsed <= Len(transportCalls) * ClientTimeout + SumSeq(sleeps)

\* A call that returned after two attempts which each ran into the
\* client's timeout.
C26_TwoTimeouts ==
    /\ pc = "done"
    /\ attempts >= 2
    /\ elapsed >= 2 * ClientTimeout
    /\ Val(result).err = Some(ErrTimeout)

\* ---------------------------------------------------------------------
\* C27: a field source that fails

\* A step in which a Read of the stream returns.
ReadStep == mp'.nreads # mp.nreads \/ mp'.errReads # mp.errReads

\* C27: when a field's source answers a read with an error, the read of the
\* stream that finds the relay empty returns that error; the stream signals
\* no end-of-stream then or later, what it has handed out and holds is the
\* encoding up to the failure with no byte repeated, and the producer does
\* not start over.
C27_SourceError ==
    /\ [](pc = "mp" =>
            /\ mp.eof => ~mp.fails /\ ~mp.rerr
            /\ mp.out \o mp.buf = SubSeq(StreamBytes(mp), 1, mp.pos)
            /\ mp.pos <= WriteLimit(mp))
    /\ [][pc = "mp" =>
            /\ (ReadStep /\ mp.fails /\ mp.closed /\ mp.buf = <<>>) => mp'.rerr
            /\ mp.rerr => (mp'.rerr /\ ~mp'.eof /\ mp'.out = mp.out)
            /\ mp.closed => (mp'.pos = mp.pos /\ mp'.closed)
            /\ mp'.pos >= mp.pos
            /\ Len(mp'.out) >= Len(mp.out)
            /\ SubSeq(mp'.out, 1, Len(mp.out)) = mp.out ]_vars

\* The first field's source failed after it had yielded a byte; everything
\* up to the failure was read, then the error, twice.
C27_Witness ==
    /\ pc = "mp"
    /\ mp.fails
    /\ mp.rerr
    /\ mp.errReads = MaxErrReads
    /\ mp.limit > ContentStart(1, mp.order, mp.fields, mp.boundary)
    /\ Len(mp.out) = mp.limit

\* ---------------------------------------------------------------------
\* C28: the relay between producer and reads

\* C28: the relay holds between 0 and RelayCap bytes; the producer writes
\* only while the relay is not full; a read returns only when a byte is
\* buffered or the producer has closed the relay (with or without an error),
\* so each read returns a byte, end-of-stream or an error.
C28_RelayBounds ==
    /\ [](pc = "mp" => Len(mp.buf) \in 0..RelayCap)
    /\ [][pc = "mp" =>
            /\ mp'.pos # mp.pos => Len(mp.buf) < RelayCap
            /\ ReadStep => (mp.buf # <<>> \/ mp.closed)
            /\ ReadStep => \/ Len(mp'.out) > Len(mp.out)
                           \/ mp'.eof
                           \/ mp'.rerr ]_vars

\* The producer has more to write and the relay is full.
C28_Witness ==
    /\ pc = "mp"
    /\ ~mp.closed
    /\ Len(mp.buf) = RelayCap
    /\ mp.pos < WriteLimit(mp)
    /\ mp.nreads > 0

\* ---------------------------------------------------------------------
\* C29: the stream comes to its end

ProducerWaitsForSpace ==
    pc = "mp" /\ ~mp.closed /\ mp.pos < WriteLimit(mp) /\ RelayRoom(mp) <= 0
ConsumerWaitsForData ==
    pc = "mp" /\ ~mp.eof /\ ~mp.rerr /\ mp.buf = <<>> /\ ~mp.closed

\* C29: with the producer and the reading consumer both scheduled fairly,
\* the producer ends and the stream signals end-of-stream (the error, when a
\* source failed); in no state does the producer wait for room while the
\* consumer waits for a byte.
C29_Terminates ==
    /\ <>(mp.closed)
    /\ (~mp.fails) => <>(mp.eof)
    /\ mp.fails => <>(mp.rerr)
    /\ [](~(ProducerWaitsForSpace /\ ConsumerWaitsForData))

\* Two fields, the first a file, were streamed to the end through a relay
\* that was smaller than the stream.
C29_Witness ==
    /\ pc = "mp"
    /\ mp.eof
    /\ mp.closed
    /\ Len(mp.order) = 2
    /\ mp.fields[mp.order[1]].kind = "file"
    /\ Len(StreamBytes(mp)) > RelayCap

\* ---------------------------------------------------------------------
\* C30: the cursor-based chain and the nested chain

\* The invocations of interceptors and of the executor so far, in order.
Invocations ==
    SelectSeq(events, LAMBDA e : e.phase \in {"before", "abort", "run"})

\* C30: with interceptors that call next at most once, the index shared by
\* the next calls of the cursor-based chain selects, at every call of next,
\* what the closure of the nested chain runs: the k-th invocation is the one
\* the cursor selects at its k-th increment, each invocation receives the
\* data the one before it passed to next, and the interceptors waiting for
\* next to return, through which the pair is handed back, are those the
\* cursor has passed, in order.
C30_CursorEquivalence ==
    LET pending == IF IsNil(call) /\ pc # "begin" THEN 0 ELSE 1
    IN  /\ ~IsNil(call) =>
              CursorTarget(cursor, middlewares)
                  = NestedTarget(Val(call).target, middlewares)
        /\ Len(Invocations) + pending = cursor + 1
        /\ \A k \in 1..Len(Invocations) :
              /\ Invocations[k].who = CursorTarget(k - 1, middlewares)
              /\ Invocations[k].dataIn =
                     IF k = 1 THEN Some(callerData) ELSE Invocations[k - 1].dataOut
        /\ \A k \in 1..Len(stack) : stack[k] = CursorTarget(k - 1, middlewares)

\* A call through two interceptors that both called next has returned.
C30_Witness ==
    /\ pc = "done"
    /\ Len(middlewares) = 2
    /\ cursor = 2
    /\ Len(Invocations) = 3
    /\ Invocations[3].who = 0

\* A call whose second interceptor returned without calling next.
C30_WitnessAbort ==
    /\ pc = "done"
    /\ Len(middlewares) = 2
    /\ middlewares[2] = "abort"
    /\ cursor = 1
    /\ Len(Invocations) = 2

\* ---------------------------------------------------------------------
\* C32: the header mapping of the caller

\* The caller supplied a header mapping.
CallerHasHeaders == callerData.Headers # 0

\* C32: a call never modifies the header mapping the caller supplied,
\* whatever the body.
C32_HeadersUntouched ==
    [][CallerHasHeaders =>
          hdrHeap'[callerData.Headers] = hdrHeap[callerData.Headers]]_vars

\* What holds: the mapping of the caller is written only for a multipart
\* body that passed the retry check, and then only under the key
\* "Content-Type"; every other entry stays as it was.
C32_OnlyMultipartContentType ==
    [][CallerHasHeaders =>
          LET old == hdrHeap[callerData.Headers]
              new == hdrHeap'[callerData.Headers]
          IN  \/ new = old
              \/ /\ pc = "begin"
                 /\ callerData.Body.kind = "multipart"
                 /\ data'.MaxRetries <= 1
                 /\ DOMAIN new = DOMAIN old \cup {"Content-Type"}
                 /\ \A k \in DOMAIN old \ {"Content-Type"} : new[k] = old[k]
                 /\ new["Content-Type"] \in {MultipartContentType(b) : b \in Boundaries}]_vars

\* A call with a multipart body returned and the mapping the caller supplied
\* holds an entry the caller did not put there.
C32_Written ==
    /\ pc = "done"
    /\ CallerHasHeaders
    /\ callerData.Body.kind = "multipart"
    /\ "accept" \in DOMAIN hdrHeap[callerData.Headers]
    /\ "Content-Type" \in DOMAIN hdrHeap[callerData.Headers]

\* ---------------------------------------------------------------------
\* C33: the response streams of the attempts

\* Stream i is the one behind the stream handle the call returned.
ReturnedToCaller(i) ==
    /\ ~IsNil(result)
    /\ Val(result).resp.ReadCloser.kind = "transport"
    /\ Val(result).resp.ReadCloser.id = i

\* C33: when a call has returned, every response stream the transport
\* handed out in any attempt is closed or is the one returned to the caller.
C33_NoStreamLeftOpen ==
    pc = "done" =>
        \A i \in 1..Len(streams) : streams[i].closed \/ ReturnedToCaller(i)

\* What holds: the stream of the response the call ended with is closed or
\* returned to the caller, no stream is closed twice, and the streams of the
\* responses that a later attempt replaced are all still open.
C33_LastStreamOnly ==
    pc = "done" =>
        /\ \A i \in 1..Len(streams) :
              /\ streams[i].closes <= 1
              /\ i < Len(streams) => ~streams[i].closed
        /\ (streams # <<>> /\ ~IsNil(lastPair.resp)) =>
              \/ streams[Len(streams)].closed
              \/ ReturnedToCaller(Len(streams))

\* A call returned a 200 response after a 502 that was retried: the stream
\* of the 502 was neither closed nor returned.
C33_LeftOpen ==
    /\ pc = "done"
    /\ Len(streams) >= 2
    /\ ~streams[1].closed
    /\ ~ReturnedToCaller(1)
    /\ IsNil(Val(result).err)

\* ---------------------------------------------------------------------
\* C34: every call of next in the nested chain

\* What follows interceptor i in the list: the next interceptor, or the
\* executor (0) after the last one.
Successor(i, mws) == IF i < Len(mws) THEN i + 1 ELSE 0

\* The calls of next so far: the events of the first and of the second call
\* of an interceptor.
NextCalls ==
    SelectSeq(events, LAMBDA e : e.phase \in {"before", "again"})

\* The k-th event is what the call of next recorded right before it ran:
\* the run of the executor or the entry into an interceptor.
RanBy(k) ==
    IF k < Len(events) /\ events[k + 1].phase \in {"before", "abort", "run"}
    THEN Some(events[k + 1])
    ELSE Nil

\* C34: in the nested chain a call of next by interceptor i, the first or a
\* later one, runs interceptor i + 1, or the executor when i is the last,
\* with the data that was passed to next.
C34_NextRunsSuccessor ==
    /\ (~IsNil(call) /\ stack # <<>>) =>
          NestedTarget(Val(call).target, middlewares)
              = Successor(stack[Len(stack)], middlewares)
    /\ \A k \in 1..Len(events) :
          (events[k].phase \in {"before", "again"} /\ ~IsNil(RanBy(k))) =>
              /\ Val(RanBy(k)).who = Successor(events[k].who, middlewares)
              /\ Val(RanBy(k)).dataIn = events[k].dataOut

\* Two interceptors that both call next twice: the second interceptor ran
\* twice and the executor four times.
C34_Witness ==
    /\ pc = "done"
    /\ Len(middlewares) = 2
    /\ middlewares[1] = "twice"
    /\ middlewares[2] = "twice"
    /\ Len(SelectSeq(events, LAMBDA e : e.phase = "run")) = 4
    /\ Len(SelectSeq(events, LAMBDA e : e.phase = "before" /\ e.who = 2)) = 2

\* Where the shared index of the earlier version would take the second call
\* of next by the first interceptor: past the second interceptor.
C34_CursorSkips ==
    /\ pc = "chain"
    /\ ~IsNil(call)
    /\ Len(middlewares) = 2
    /\ stack = <<1>>
    /\ frames[1].calls = 2
    /\ NestedTarget(Val(call).target, middlewares) = 2
    /\ CursorTarget(cursor, middlewares) = 0

\* ---------------------------------------------------------------------
\* C31: calls running concurrently on one client

\* What call p has run so far is the list of its client from its start, in
\* order: interceptor k at the k-th place, then the executor.
InListOrder(p) ==
    LET f == inflight[p]
        list == expected[f.client]
    IN  /\ \A k \in 1..Len(f.invoked) :
              f.invoked[k] = IF k <= Len(list) THEN k ELSE 0
        /\ \A k \in 1..Len(f.ran) : f.ran[k] = list[k]
        /\ f.state = "done" =>
              \/ Len(f.invoked) = Len(list) + 1
              \/ f.ran # <<>> /\ f.ran[Len(f.ran)] = "abort"

C35_ListsIndependent ==
    pc = "clients" =>
        \A c \in 1..Len(clients) : SliceList(arrays, clients[c]) = expected[c]

\* What holds: each list has the length of what was given and added to its
\* client value, and the list of a client value that was never copied is
\* what New was given followed by what was added, in call order.
C35_UnlessCopied ==
    pc = "clients" =>
        \A c \in 1..Len(clients) :
            /\ clients[c].len = Len(expected[c])
            /\ Len(clients) = 1 => SliceList(arrays, clients[c]) = expected[c]

\* Both copies added an interceptor in turn and the first copy's list now
\* ends with the interceptor added to the second.
C35_Overwritten ==
    /\ pc = "clients"
    /\ Len(clients) = 2
    /\ clients[1].arr = clients[2].arr
    /\ clients[1].len = clients[2].len
    /\ Len(expected[1]) = Len(expected[2])
    /\ expected[1] # expected[2]
    /\ SliceList(arrays, clients[1]) = expected[2]

====
